---- MODULE Spec2Model ----
(***************************************************************************)
(* A model of the raytracer's scene graph (groups, cached world            *)
(* transforms), intersection lists, hit selection, refraction bookkeeping  *)
(* and the depth-limited shading recursion.                                *)
(*                                                                         *)
(* Numbers.  The program computes in f64.  The model keeps to the values   *)
(* on which f64 arithmetic is exact: small integers.  A Matrix4 is         *)
(* restricted to the family  translate(b,0,0) * scale(a,1,1)  with         *)
(* a in {1,-1}; such a matrix is written <<a, b>> and maps the point       *)
(* (x,y,z) to (a*x + b, y, z).  The family is closed under product and     *)
(* inverse and is not commutative, so the order of composition matters.    *)
(***************************************************************************)
EXTENDS Integers, Sequences, FiniteSets, TLC

VARIABLES
    heap,      \* Rc<RefCell<Object>> cells: handle -> Object
    alive,     \* handle -> BOOLEAN: the Rc still has a strong reference
    ops,       \* number of operations performed so far
    last,      \* the operation performed last
    arg,       \* the arguments of the function under study
    res,       \* its result, once it has been applied
    stack,     \* the call stack of World::color_at
    calls,     \* what the calls of color_at_internal have done so far
    canvas,    \* the Canvas that is written to
    render     \* where Camera::render is in its loops, and what it has written

treeVars == <<heap, alive, ops, last>>

fnVars == <<arg, res>>

colorVars == <<stack, calls>>

renderVars == <<canvas, render>>

vars == <<heap, alive, ops, last, arg, res, stack, calls, canvas, render>>

\* The value of a variable a specification does not use
Unused == "unused"

-----------------------------------------------------------------------------
(* Bounds of the model *)

\* Coordinates of the finite corners of a Bounds: -MaxCoord..MaxCoord
MaxCoord == 2

\* Width and height of a canvas: 0..MaxSide
MaxSide == 2

\* Operations in one run of the scene-graph machine
MaxOps == 3

\* Objects in a world
MaxObjects == 2

\* Intersections in a list handed to Intersection::hit
MaxHitLen == 3

\* Intersections in a list handed to prepare_computations_for_intersections
MaxPrepLen == 5

-----------------------------------------------------------------------------
(* core::matrices::Matrix4, restricted to <<a, b>> : x |-> a*x + b *)

identity == <<1, 0>>

translate(x) == <<1, x>>

scale(x) == <<x, 0>>

\* Matrix4 * Matrix4
Mul(m, n) == <<m[1] * n[1], m[1] * n[2] + m[2]>>

\* Matrix4 * Point, a point being <<x, y, z>>
MulPoint(m, p) == <<m[1] * p[1] + m[2], p[2], p[3]>>

\* Matrix4 * Vector: the translation column does not act on a vector
MulVector(m, v) == <<m[1] * v[1], v[2], v[3]>>

\* Matrix4::inverse for determinant a in {1,-1}: cofactor / determinant
inverse(m) == <<m[1], (0 - m[1]) * m[2]>>

\* The transformations the operations are called with
TransformInputs == {translate(1), scale(-1)}

\* The world points at which world_to_object is compared
Points == {<<0, 0, 0>>, <<1, 0, 0>>}

-----------------------------------------------------------------------------
(* rendering::objects::Object *)

NoParent == 0

\* MaterialBuilder::new().build(), the fields that steer reflection and
\* refraction; a refractive index is written in tenths, 10 being 1.0
Material_default == [reflectivity |-> 0, transparency |-> 0, refractive_index |-> 10]

\* Object::sphere()
sphere ==
    [kind |-> "sphere", transformation |-> identity,
     world_transformation |-> identity, material |-> Material_default,
     parent |-> NoParent, children |-> <<>>]

\* Object::group(), Group::new()
group ==
    [kind |-> "group", transformation |-> identity,
     world_transformation |-> identity, material |-> Material_default,
     parent |-> NoParent, children |-> <<>>]

RECURSIVE update_transforms(_, _, _)
RECURSIVE propagate_world_transform_to_group_children(_, _)

\* A group with every child's world transform recomputed from parent_world
propagate_world_transform_to_group_children(g, parent_world_transform) ==
    [g EXCEPT !.children =
        [i \in DOMAIN g.children |->
            update_transforms(g.children[i],
                              g.children[i].transformation,
                              Mul(parent_world_transform, g.children[i].transformation))]]

\* Object::update_transforms
update_transforms(o, transformation, world_transformation) ==
    LET o1 == [o EXCEPT !.transformation = transformation,
                        !.world_transformation = world_transformation]
    IN  IF o.kind = "group"
        THEN propagate_world_transform_to_group_children(o1, world_transformation)
        ELSE o1

\* Object::set_world_transform
set_world_transform(o, world_transformation) ==
    update_transforms(o, o.transformation, world_transformation)

\* Object::world_to_object
world_to_object(o, world_point) ==
    MulPoint(inverse(o.world_transformation), world_point)

\* Weak::upgrade of an object's parent link, then world_transformation();
\* identity when there is no parent or the parent has been dropped
ParentWorld(hp, al, o) ==
    IF o.parent # NoParent /\ al[o.parent]
    THEN hp[o.parent].world_transformation
    ELSE identity

\* set_transform as it would be if it dropped the parent's contribution
set_transform_without_parent(hp, al, o, transformation) ==
    update_transforms(o, transformation, transformation)

\* Object::set_transform (Transformable)
set_transform(hp, al, o, transformation) ==
    update_transforms(o, transformation, Mul(ParentWorld(hp, al, o), transformation))

-----------------------------------------------------------------------------
(* geometry::groups::Group *)

RECURSIVE add_child(_, _, _)
RECURSIVE AddDrained(_, _, _)

\* The loop of Group::add_child over the drained grandchildren
AddDrained(child_group, drained, parent_world_transform) ==
    IF drained = <<>>
    THEN child_group
    ELSE AddDrained(add_child(child_group, Head(drained), parent_world_transform),
                    Tail(drained), parent_world_transform)

\* add_child as it would be if the re-rooted grandchildren were pushed without
\* the inserted group's new ancestors
add_child_without_rerooting(g, child, parent_world_transform) ==
    LET child_world_transform ==
            Mul(Mul(parent_world_transform, g.transformation), child.transformation)
        c1 == [child EXCEPT !.world_transformation = child_world_transform]
    IN  [g EXCEPT !.children = Append(g.children, c1)]

\* Group::add_child
add_child(g, child, parent_world_transform) ==
    LET child_world_transform ==
            Mul(Mul(parent_world_transform, g.transformation), child.transformation)
        c1 == set_world_transform(child, child_world_transform)
        c2 == IF c1.kind = "group"
              THEN AddDrained([c1 EXCEPT !.children = <<>>], c1.children,
                              Mul(parent_world_transform, g.transformation))
              ELSE c1
    IN  [g EXCEPT !.children = Append(g.children, c2)]

\* Group::set_child_transform
set_child_transform(g, index, transformation) ==
    IF index \in DOMAIN g.children
    THEN [g EXCEPT !.children[index] =
            update_transforms(g.children[index], transformation,
                              Mul(g.world_transformation, transformation))]
    ELSE g

\* add_child_to_group: the convenience wrapper
add_child_to_group(g, child) == add_child(g, child, identity)

\* add_child_to_group_rc: the heap after the call
add_child_to_group_rc(hp, al, g, c) ==
    LET hp1 == [hp EXCEPT ![c].parent = g]
        parent_world_transform == ParentWorld(hp1, al, hp1[g])
        child_world_transform ==
            Mul(Mul(parent_world_transform, hp1[g].transformation),
                hp1[c].transformation)
        hp2 == [hp1 EXCEPT ![g] = add_child(hp1[g], hp1[c], parent_world_transform)]
    IN  [hp2 EXCEPT ![c] = set_world_transform(hp2[c], child_world_transform)]

-----------------------------------------------------------------------------
(* The scene-graph state machine: three Rc handles, two groups and a sphere *)

Handles == 1..3

Fresh(h) == IF h = 3 THEN sphere ELSE group

\* After construction every handle holds a fresh object whose transform was
\* set once (set_transform on a parentless object gives world = local)
TreeInit ==
    /\ heap \in {hp \in [Handles -> {update_transforms(Fresh(h), t, t) :
                                        h \in Handles, t \in TransformInputs}] :
                    \A h \in Handles : hp[h].kind = Fresh(h).kind}
    /\ alive = [h \in Handles |-> TRUE]
    /\ ops = 0
    /\ last = [op |-> "new", a |-> 0, b |-> 0, t |-> identity]
    /\ arg = Unused /\ res = Unused
    /\ stack = Unused /\ calls = Unused
    /\ canvas = Unused /\ render = Unused

\* h.borrow_mut().set_transform(t)
SetTransform(h, t) ==
    /\ ops < MaxOps
    /\ alive[h]
    /\ heap' = [heap EXCEPT ![h] = set_transform(heap, alive, heap[h], t)]
    /\ ops' = ops + 1
    /\ last' = [op |-> "set_transform", a |-> h, b |-> 0, t |-> t]
    /\ UNCHANGED <<alive, fnVars, colorVars, renderVars>>

\* add_child_to_group_rc(&g, c.clone()); panics unless g holds a group, and
\* the RefCell borrows conflict when g and c are the same cell
AddChildRc(g, c) ==
    /\ ops < MaxOps
    /\ alive[g] /\ alive[c] /\ g # c
    /\ heap[g].kind = "group"
    /\ heap' = add_child_to_group_rc(heap, alive, g, c)
    /\ ops' = ops + 1
    /\ last' = [op |-> "add_child_to_group_rc", a |-> g, b |-> c, t |-> identity]
    /\ UNCHANGED <<alive, fnVars, colorVars, renderVars>>

\* add_child_to_group(group, child) on the group a handle holds, the child
\* a freshly constructed sphere whose transform was set to t
AddChildToGroup(g, t) ==
    /\ ops < MaxOps
    /\ alive[g]
    /\ heap[g].kind = "group"
    /\ heap' = [heap EXCEPT ![g] =
                    add_child_to_group(heap[g], update_transforms(sphere, t, t))]
    /\ ops' = ops + 1
    /\ last' = [op |-> "add_child_to_group", a |-> g, b |-> 0, t |-> t]
    /\ UNCHANGED <<alive, fnVars, colorVars, renderVars>>

\* group.add_child(child, parent_world) used as documented: parent_world is
\* the accumulated world transform of the group's parent; the child is a
\* copy of the object another handle holds
AddChild(g, c) ==
    /\ ops < MaxOps
    /\ alive[g] /\ alive[c] /\ g # c
    /\ heap[g].kind = "group"
    /\ heap' = [heap EXCEPT ![g] =
                    add_child(heap[g], heap[c], ParentWorld(heap, alive, heap[g]))]
    /\ ops' = ops + 1
    /\ last' = [op |-> "add_child", a |-> g, b |-> c, t |-> identity]
    /\ UNCHANGED <<alive, fnVars, colorVars, renderVars>>

\* group.set_child_transform(index, t); an index past the end is ignored
SetChildTransform(g, index, t) ==
    /\ ops < MaxOps
    /\ alive[g]
    /\ heap[g].kind = "group"
    /\ heap' = [heap EXCEPT ![g] = set_child_transform(heap[g], index, t)]
    /\ ops' = ops + 1
    /\ last' = [op |-> "set_child_transform", a |-> g, b |-> index, t |-> t]
    /\ UNCHANGED <<alive, fnVars, colorVars, renderVars>>

\* The last strong reference to a handle goes away
DropHandle(h) ==
    /\ ops < MaxOps
    /\ alive[h]
    /\ alive' = [alive EXCEPT ![h] = FALSE]
    /\ ops' = ops + 1
    /\ last' = [op |-> "drop", a |-> h, b |-> 0, t |-> identity]
    /\ UNCHANGED <<heap, fnVars, colorVars, renderVars>>

TreeNext ==
    \/ \E h \in Handles, t \in TransformInputs : SetTransform(h, t)
    \/ \E g, c \in Handles : AddChildRc(g, c)
    \/ \E g \in Handles, t \in TransformInputs : AddChildToGroup(g, t)
    \/ \E g, c \in Handles : AddChild(g, c)
    \/ \E g \in Handles, t \in TransformInputs :
          \E index \in 1..(Len(heap[g].children) + 1) : SetChildTransform(g, index, t)
    \/ \E h \in Handles : DropHandle(h)

Spec == TreeInit /\ [][TreeNext]_vars

-----------------------------------------------------------------------------
(* Properties of the scene graph *)

RECURSIVE ChildrenFollowParent(_)

\* Every node below o has world = its parent's world * its own local
ChildrenFollowParent(o) ==
    \A i \in DOMAIN o.children :
        /\ o.children[i].world_transformation =
               Mul(o.world_transformation, o.children[i].transformation)
        /\ ChildrenFollowParent(o.children[i])

RECURSIVE SameLocals(_, _)

\* The two trees have the same shape, kinds and local transforms
SameLocals(o, p) ==
    /\ o.kind = p.kind
    /\ o.transformation = p.transformation
    /\ Len(o.children) = Len(p.children)
    /\ \A i \in DOMAIN o.children : SameLocals(o.children[i], p.children[i])

\* The deepest nesting below o: 0 for a leaf or an empty group
RECURSIVE Depth(_)

Depth(o) ==
    IF o.children = <<>> THEN 0
    ELSE LET ds == {Depth(o.children[i]) : i \in DOMAIN o.children}
         IN  1 + CHOOSE d \in ds : \A e \in ds : e <= d

\* C1: after any sequence of add_child, add_child_to_group,
\* add_child_to_group_rc, set_transform and set_child_transform calls, every
\* node has world_transformation = parent's world_transformation * local
\* transformation, a node without parent having world = local.  The parent of
\* a node stored in a group is that group; the parent of the object a handle
\* holds is the object its parent link resolves to.
C1_WorldTransformInvariant ==
    \A h \in Handles :
        alive[h] =>
            /\ heap[h].parent = NoParent =>
                   heap[h].world_transformation = heap[h].transformation
            /\ (heap[h].parent # NoParent /\ alive[heap[h].parent]) =>
                   heap[h].world_transformation =
                       Mul(heap[heap[h].parent].world_transformation,
                           heap[h].transformation)
            /\ ChildrenFollowParent(heap[h])

\* The part of C1 that the code keeps: below a group that was never given a
\* parent, every stored node follows its parent
C1_RootTreesConsistent ==
    \A h \in Handles :
        (alive[h] /\ heap[h].parent = NoParent) =>
            /\ heap[h].world_transformation = heap[h].transformation
            /\ ChildrenFollowParent(heap[h])

\* What world_to_object must give for A under G under H
Composed(H, G, A, p) ==
    MulPoint(inverse(Mul(Mul(H.transformation, G.transformation), A.transformation)), p)

\* C2, for the A reached through H's children
C2_ThroughChildren ==
    \A h \in Handles :
        (alive[h] /\ heap[h].parent = NoParent) =>
            \A i \in DOMAIN heap[h].children :
                LET G == heap[h].children[i]
                IN  \A j \in DOMAIN G.children :
                        \A p \in Points :
                            world_to_object(G.children[j], p) =
                                Composed(heap[h], G, G.children[j], p)

\* C2, for the handle to A that was passed to add_child_to_group_rc
C2_ThroughHandle ==
    \A h, g, a \in Handles :
        (/\ alive[h] /\ alive[g] /\ alive[a]
         /\ heap[h].parent = NoParent
         /\ heap[g].parent = h
         /\ heap[a].parent = g) =>
            \A p \in Points :
                world_to_object(heap[a], p) = Composed(heap[h], heap[g], heap[a], p)

\* C2: with A nested under G nested under H, A's world_to_object(p) is
\* inverse(H_local * G_local * A_local) * p whatever the order of the
\* set_transform calls and the insertions, both for the A stored below H and
\* for the handle to A
C2_WorldToObjectComposes == C2_ThroughChildren /\ C2_ThroughHandle

\* C3: set_transform(t) on a node sets its local transform to t and its world
\* transform to P * t, P being the parent's cached world transform (identity
\* without a parent or when the parent is gone); below a group every
\* descendant then has world = its parent's world * its own local, and no
\* descendant's local transform changes
C3_SetTransform ==
    [][\A h \in Handles, t \in TransformInputs :
          SetTransform(h, t) =>
              LET P == IF heap[h].parent = NoParent \/ ~alive[heap[h].parent]
                       THEN identity
                       ELSE heap[heap[h].parent].world_transformation
                  o == heap'[h]
              IN  /\ o.transformation = t
                  /\ o.world_transformation = Mul(P, t)
                  /\ ChildrenFollowParent(o)
                  /\ SameLocals(o, [heap[h] EXCEPT !.transformation = t])]_vars

\* C3 happens: set_transform was just called on a group that has a parent
\* with a world transform other than the identity and descendants two deep
C3_Witness ==
    /\ last.op = "set_transform"
    /\ heap[last.a].parent # NoParent
    /\ alive[heap[last.a].parent]
    /\ heap[heap[last.a].parent].world_transformation # identity
    /\ Depth(heap[last.a]) >= 2

\* One of the children stored in the group g holds is, in its kind, its
\* local transform and its descendants, the object the handle c holds
StoredChildIsHandle(hp, g, c) ==
    \E i \in DOMAIN hp[g].children : SameLocals(hp[g].children[i], hp[c])

\* C26: after add_child_to_group_rc(g, c) the child stored in g and the
\* handle c are the same node: a set_transform made through c, and an
\* add_child_to_group_rc(c, d), show in g's children
C26_HandleIsStoredChild ==
    [][\A g, c \in Handles :
          (/\ alive[g] /\ alive[c]
           /\ heap[g].kind = "group" /\ heap[c].parent = g
           /\ StoredChildIsHandle(heap, g, c)
           /\ \/ \E t \in TransformInputs : SetTransform(c, t)
              \/ \E d \in Handles : AddChildRc(c, d))
              => StoredChildIsHandle(heap', g, c)]_vars

\* What the code gives instead: the child stored by add_child_to_group_rc
\* is the object the handle held when it was added
C26_StoredChildIsCopy ==
    [][\A g, c \in Handles :
          AddChildRc(g, c) =>
              /\ Len(heap'[g].children) = Len(heap[g].children) + 1
              /\ SameLocals(heap'[g].children[Len(heap'[g].children)], heap[c])
              /\ SameLocals(heap'[c], heap[c])]_vars

-----------------------------------------------------------------------------
(* Group::add_child as a function of its arguments *)

\* A freshly constructed sphere after set_transform(t)
Leaf(t) == update_transforms(sphere, t, t)

RECURSIVE Grp(_, _)

\* A freshly constructed group after set_transform(t) and one
\* add_child_to_group per element of kids, in order
Grp(t, kids) ==
    IF kids = <<>>
    THEN update_transforms(group, t, t)
    ELSE add_child_to_group(Grp(t, SubSeq(kids, 1, Len(kids) - 1)), kids[Len(kids)])

\* The transforms objects are built with
BuildTransforms == TransformInputs \cup {identity}

Leaves == {Leaf(t) : t \in BuildTransforms}

Groups1 == {Grp(t, <<l>>) : t \in BuildTransforms, l \in Leaves}

Groups2 == {Grp(t, <<g, l>>) : t \in TransformInputs, g \in Groups1, l \in {Leaf(identity)}}

\* The objects handed to add_child: leaves, empty groups, groups one and two deep
AddChildObjects ==
    Leaves \cup {Grp(t, <<>>) : t \in BuildTransforms} \cup Groups1 \cup Groups2

\* The groups that receive the child: empty or holding one sphere
AddChildReceivers ==
    {Grp(t, <<>>) : t \in BuildTransforms} \cup {Grp(t, <<Leaf(translate(1))>>) : t \in TransformInputs}

AddInit ==
    /\ arg \in [fn : {"add_child"}, g : AddChildReceivers, child : AddChildObjects,
                parent_world : BuildTransforms]
    /\ res = [done |-> FALSE]
    /\ heap = Unused /\ alive = Unused /\ ops = Unused /\ last = Unused
    /\ stack = Unused /\ calls = Unused
    /\ canvas = Unused /\ render = Unused

\* arg.g.add_child(arg.child, arg.parent_world)
ApplyAddChild ==
    /\ ~res.done
    /\ res' = [done |-> TRUE, value |-> add_child(arg.g, arg.child, arg.parent_world)]
    /\ UNCHANGED <<arg, treeVars, colorVars, renderVars>>

AddNext == ApplyAddChild

SpecAdd == AddInit /\ [][AddNext]_vars

RECURSIVE WorldsFromPath(_, _)

\* o and every node below it has world = base * the product of the local
\* transforms on the path down to it
WorldsFromPath(o, base) ==
    /\ o.world_transformation = Mul(base, o.transformation)
    /\ \A i \in DOMAIN o.children :
           WorldsFromPath(o.children[i], Mul(base, o.transformation))

\* C4: add_child(child, parent_world) appends the child as the last element
\* of the group's children with world = parent_world * group_local *
\* child_local; every descendant of an inserted group ends with world =
\* parent_world * the product of the locals on the path from the receiving
\* group down to it, the descendants' order and locals unchanged
C4_AddChild ==
    res.done =>
        LET g == res.value
            n == Len(g.children)
            c == g.children[n]
        IN  /\ n = Len(arg.g.children) + 1
            /\ SubSeq(g.children, 1, n - 1) = arg.g.children
            /\ c.world_transformation =
                   Mul(Mul(arg.parent_world, arg.g.transformation), arg.child.transformation)
            /\ WorldsFromPath(c, Mul(arg.parent_world, arg.g.transformation))
            /\ SameLocals(c, arg.child)

\* C4 happens: a group two deep was added to a transformed group under a
\* parent_world other than the identity
C4_Witness ==
    /\ res.done
    /\ Depth(arg.child) >= 2
    /\ arg.parent_world # identity
    /\ arg.g.transformation # identity
    /\ arg.g.children # <<>>

-----------------------------------------------------------------------------
(* f64 values beyond the integers: <<0, n>> is the number n, <<1, 1>> and   *)
(* <<1, -1>> are the infinities, <<2, 0>> is NaN.  <<0, n, e>> is the number *)
(* n + e * 1e-12, for the rays that are a hair off an axis or off a face of *)
(* a box: products of two such hairs are below the precision of f64 and are *)
(* left out.                                                                *)

Fin(n) == <<0, n>>

\* n + e * 1e-12
Fine(n, e) == IF e = 0 THEN <<0, n>> ELSE <<0, n, e>>

\* The part of a finite value that is counted in 1e-12
FineOf(a) == IF Len(a) = 3 THEN a[3] ELSE 0

\* core::floats::float_equal, |a - b| < EPSILON, on integers
float_equal(a, b) == a = b

INFINITY == <<1, 1>>

NEG_INFINITY == <<1, -1>>

NAN == <<2, 0>>

is_infinite(x) == x[1] = 1

is_nan(x) == x[1] = 2

\* a < b on f64: false as soon as one side is NaN
FLt(a, b) ==
    /\ ~is_nan(a) /\ ~is_nan(b)
    /\ IF is_infinite(a)
       THEN a[2] = -1 /\ b # NEG_INFINITY
       ELSE IF is_infinite(b) THEN b[2] = 1
       ELSE a[2] < b[2] \/ (a[2] = b[2] /\ FineOf(a) < FineOf(b))

\* a == b on f64
FEq(a, b) ==
    /\ ~is_nan(a) /\ ~is_nan(b)
    /\ a[1] = b[1] /\ a[2] = b[2] /\ FineOf(a) = FineOf(b)

\* a <= b on f64
FLe(a, b) == FEq(a, b) \/ FLt(a, b)

\* f64::min and f64::max: a NaN operand is ignored
FMin(a, b) == IF is_nan(a) THEN b ELSE IF is_nan(b) THEN a ELSE IF FLt(b, a) THEN b ELSE a

FMax(a, b) == IF is_nan(a) THEN b ELSE IF is_nan(b) THEN a ELSE IF FLt(a, b) THEN b ELSE a

\* a - b for a finite b
FSub(a, b) ==
    IF a[1] = 0 THEN Fine(a[2] - b[2], FineOf(a) - FineOf(b)) ELSE a

\* a * f64::INFINITY
FMulInfinity(a) ==
    IF is_nan(a) THEN NAN
    ELSE IF a[2] > 0 \/ (a[2] = 0 /\ FineOf(a) > 0) THEN INFINITY
    ELSE IF a[2] < 0 \/ (a[2] = 0 /\ FineOf(a) < 0) THEN NEG_INFINITY
    ELSE NAN

\* a / d for a direction component d that is 1.0 or -1.0
FDivUnit(a, d) ==
    IF is_nan(a) THEN NAN
    ELSE IF is_infinite(a) THEN <<1, a[2] * d[2]>>
    ELSE Fine(a[2] * d[2], FineOf(a) * d[2])

-----------------------------------------------------------------------------
(* rendering::rays::Ray: [origin |-> <<x,y,z>>, direction |-> <<x,y,z>>] *)

position(ray, t) ==
    <<ray.origin[1] + ray.direction[1] * t,
      ray.origin[2] + ray.direction[2] * t,
      ray.origin[3] + ray.direction[3] * t>>

\* The parts of the origin and of the direction of a ray that are counted
\* in 1e-12, for the rays that have them
HasFine(ray) == "origin_fine" \in DOMAIN ray

OriginAt(ray, i) ==
    Fine(ray.origin[i], IF HasFine(ray) THEN ray.origin_fine[i] ELSE 0)

DirectionAt(ray, i) ==
    Fine(ray.direction[i], IF HasFine(ray) THEN ray.direction_fine[i] ELSE 0)

\* Ray::transform
transform(ray, m) ==
    IF HasFine(ray)
    THEN [origin |-> MulPoint(m, ray.origin),
          direction |-> MulVector(m, ray.direction),
          origin_fine |-> MulVector(m, ray.origin_fine),
          direction_fine |-> MulVector(m, ray.direction_fine)]
    ELSE [origin |-> MulPoint(m, ray.origin),
          direction |-> MulVector(m, ray.direction)]

dot(u, v) == u[1] * v[1] + u[2] * v[2] + u[3] * v[3]

\* f64::sqrt on the perfect squares the model meets
sqrt(n) == CHOOSE r \in 0..n : r * r = n

-----------------------------------------------------------------------------
(* geometry::bounds::Bounds: [min |-> <<f,f,f>>, max |-> <<f,f,f>>] *)

Bounds_empty ==
    [min |-> <<INFINITY, INFINITY, INFINITY>>,
     max |-> <<NEG_INFINITY, NEG_INFINITY, NEG_INFINITY>>]

Bounds_infinite ==
    [min |-> <<NEG_INFINITY, NEG_INFINITY, NEG_INFINITY>>,
     max |-> <<INFINITY, INFINITY, INFINITY>>]

\* Bounds::add_point
add_point(b, point) ==
    [min |-> [i \in 1..3 |-> FMin(b.min[i], point[i])],
     max |-> [i \in 1..3 |-> FMax(b.max[i], point[i])]]

\* Bounds::merge
merge(b, other) == add_point(add_point(b, other.min), other.max)

RECURSIVE AddPoints(_, _)

\* The loop of Bounds::transform over the transformed corners
AddPoints(b, points) ==
    IF points = <<>> THEN b ELSE AddPoints(add_point(b, Head(points)), Tail(points))

\* Bounds::transform as it would be if only a min at infinity were looked for
Bounds_transform_checking_min_only(b, matrix) ==
    LET has_infinite_min == \E i \in 1..3 : is_infinite(b.min[i])
        unbounded(x) == IF is_infinite(x) THEN NAN ELSE x
    IN  IF has_infinite_min
        THEN Bounds_infinite
        ELSE [min |-> [i \in 1..3 |-> unbounded(b.min[i])],
              max |-> [i \in 1..3 |-> unbounded(b.max[i])]]

\* Bounds::transform
Bounds_transform(b, matrix) ==
    LET has_infinite_min == \E i \in 1..3 : is_infinite(b.min[i])
        has_infinite_max == \E i \in 1..3 : is_infinite(b.max[i])
        lo == [i \in 1..3 |-> b.min[i][2]]
        hi == [i \in 1..3 |-> b.max[i][2]]
        corners == << lo,
                      <<lo[1], lo[2], hi[3]>>,
                      <<lo[1], hi[2], lo[3]>>,
                      <<lo[1], hi[2], hi[3]>>,
                      <<hi[1], lo[2], lo[3]>>,
                      <<hi[1], lo[2], hi[3]>>,
                      <<hi[1], hi[2], lo[3]>>,
                      hi >>
        moved == [k \in 1..8 |->
                    LET q == MulPoint(matrix, corners[k])
                    IN  <<Fin(q[1]), Fin(q[2]), Fin(q[3])>>]
    IN  IF has_infinite_min \/ has_infinite_max
        THEN Bounds_infinite
        ELSE AddPoints(Bounds_empty, moved)

\* direction.abs() >= 1e-10
AtLeast1eMinus10(direction) ==
    direction[2] # 0 \/ FineOf(direction) >= 100 \/ FineOf(direction) <= -100

\* Bounds::check_axis
check_axis(origin, direction, min, max) ==
    LET tmin_numerator == FSub(min, origin)
        tmax_numerator == FSub(max, origin)
        tmin == IF AtLeast1eMinus10(direction)
                THEN FDivUnit(tmin_numerator, direction)
                ELSE FMulInfinity(tmin_numerator)
        tmax == IF AtLeast1eMinus10(direction)
                THEN FDivUnit(tmax_numerator, direction)
                ELSE FMulInfinity(tmax_numerator)
    IN  IF FLt(tmax, tmin) THEN <<tmax, tmin>> ELSE <<tmin, tmax>>

\* Bounds::intersects
intersects(b, ray) ==
    LET x == check_axis(OriginAt(ray, 1), DirectionAt(ray, 1), b.min[1], b.max[1])
        y == check_axis(OriginAt(ray, 2), DirectionAt(ray, 2), b.min[2], b.max[2])
        z == check_axis(OriginAt(ray, 3), DirectionAt(ray, 3), b.min[3], b.max[3])
        tmin == FMax(FMax(x[1], y[1]), z[1])
        tmax == FMin(FMin(x[2], y[2]), z[2])
    IN  FLe(tmin, tmax)

-----------------------------------------------------------------------------
(* Intersections: a list of t values, or of Intersection records            *)
(* [t |-> t, object |-> reference].  A reference &Object is the path of     *)
(* child indices that leads from the owner of the tree to the object.       *)

RECURSIVE InsertByT(_, _)

\* x placed behind every element of the sorted list whose t is not greater
InsertByT(sorted, x) ==
    IF sorted = <<>> THEN <<x>>
    ELSE IF x.t < Head(sorted).t
         THEN <<x>> \o sorted
         ELSE <<Head(sorted)>> \o InsertByT(Tail(sorted), x)

RECURSIVE sort_by_t(_)

\* The sort as it would be if the list were left in the order it was built
sort_by_t_left_unsorted(xs) == xs

\* Vec::sort_by on the t of an Intersection: a stable sort, ascending
sort_by_t(xs) ==
    IF xs = <<>> THEN <<>>
    ELSE InsertByT(sort_by_t(SubSeq(xs, 1, Len(xs) - 1)), xs[Len(xs)])

\* Vec::sort_by on a list of f64
sort_f64(ts) ==
    LET sorted == sort_by_t([i \in DOMAIN ts |-> [t |-> ts[i]]])
    IN  [i \in DOMAIN sorted |-> sorted[i].t]

\* Sphere::local_intersect
Sphere_local_intersect(ray) ==
    LET sphere_to_ray == ray.origin
        a == dot(ray.direction, ray.direction)
        b == 2 * dot(ray.direction, sphere_to_ray)
        c == dot(sphere_to_ray, sphere_to_ray) - 1
        discriminant == b * b - 4 * a * c
        t1 == ((0 - b) - sqrt(discriminant)) \div (2 * a)
        t2 == ((0 - b) + sqrt(discriminant)) \div (2 * a)
    IN  IF discriminant < 0 THEN <<>>
        ELSE IF t1 <= t2 THEN <<t1, t2>> ELSE <<t2, t1>>

\* Object::cylinder(), Cylinder::new(), with the fields a scene sets
cylinder(minimum, maximum, closed) ==
    [kind |-> "cylinder", transformation |-> identity,
     world_transformation |-> identity, material |-> Material_default,
     parent |-> NoParent, children |-> <<>>,
     minimum |-> minimum, maximum |-> maximum, closed |-> closed]

\* Object::cone(), Cone::new(), with the fields a scene sets
cone(minimum, maximum, closed) ==
    [kind |-> "cone", transformation |-> identity,
     world_transformation |-> identity, material |-> Material_default,
     parent |-> NoParent, children |-> <<>>,
     minimum |-> minimum, maximum |-> maximum, closed |-> closed]

\* ray.origin.y + t * ray.direction.y
YAt(ray, t) ==
    Fine(ray.origin[2] + t * ray.direction[2],
         FineOf(OriginAt(ray, 2)) + t * FineOf(DirectionAt(ray, 2)))

\* self.minimum < y && y < self.maximum
Within(shape, y) == FLt(shape.minimum, y) /\ FLt(y, shape.maximum)

\* (y - ray.origin.y) / ray.direction.y for the y of a cap, the direction
\* being 1.0 or -1.0 along y
CapT(ray, y) == FDivUnit(FSub(y, OriginAt(ray, 2)), DirectionAt(ray, 2))

\* Cylinder::check_cap; for an infinite t, x or z is infinite or, where the
\* ray does not move along the axis, NaN, and the comparison is false
Cylinder_check_cap(ray, t) ==
    IF t[1] # 0 THEN FALSE
    ELSE LET x == ray.origin[1] + t[2] * ray.direction[1]
             z == ray.origin[3] + t[2] * ray.direction[3]
         IN  x * x + z * z <= 1

\* Cylinder::intersect_caps; float_equal(ray.direction.y, 0.0) looks at the
\* whole part of the direction, what is counted in 1e-12 being below EPSILON
Cylinder_intersect_caps(cy, ray, intersections) ==
    IF ~cy.closed \/ float_equal(ray.direction[2], 0) THEN intersections
    ELSE LET t_minimum == CapT(ray, cy.minimum)
             t_maximum == CapT(ray, cy.maximum)
             with_minimum == IF Cylinder_check_cap(ray, t_minimum)
                             THEN Append(intersections, t_minimum[2])
                             ELSE intersections
         IN  IF Cylinder_check_cap(ray, t_maximum)
             THEN Append(with_minimum, t_maximum[2])
             ELSE with_minimum

\* Cylinder::local_intersect
Cylinder_local_intersect(cy, ray) ==
    LET a == ray.direction[1] * ray.direction[1] + ray.direction[3] * ray.direction[3]
        b == 2 * ray.origin[1] * ray.direction[1] + 2 * ray.origin[3] * ray.direction[3]
        c == ray.origin[1] * ray.origin[1] + ray.origin[3] * ray.origin[3] - 1
        discriminant == b * b - 4 * a * c
        sqrt_disc == sqrt(discriminant)
        denom == 2 * a
        r0 == ((0 - b) - sqrt_disc) \div denom
        r1 == ((0 - b) + sqrt_disc) \div denom
        t0 == IF r0 > r1 THEN r1 ELSE r0
        t1 == IF r0 > r1 THEN r0 ELSE r1
        xs0 == IF Within(cy, YAt(ray, t0)) THEN <<t0>> ELSE <<>>
        xs1 == IF Within(cy, YAt(ray, t1)) THEN Append(xs0, t1) ELSE xs0
    IN  IF float_equal(a, 0)
        THEN IF cy.closed THEN Cylinder_intersect_caps(cy, ray, <<>>) ELSE <<>>
        ELSE IF discriminant < 0 THEN <<>>
        ELSE Cylinder_intersect_caps(cy, ray, xs1)

\* Cylinder::local_normal_at, for a point of whole coordinates: y is at
\* least maximum - EPSILON exactly when it is at least maximum
Cylinder_local_normal_at(cy, point) ==
    LET dist == point[1] * point[1] + point[3] * point[3]
    IN  IF dist < 1 /\ FLe(cy.maximum, Fin(point[2])) THEN <<0, 1, 0>>
        ELSE IF dist < 1 /\ FLe(Fin(point[2]), cy.minimum) THEN <<0, -1, 0>>
        ELSE <<point[1], 0, point[3]>>

\* Cylinder::bounds
Cylinder_bounds(cy) ==
    [min |-> <<Fin(-1), cy.minimum, Fin(-1)>>, max |-> <<Fin(1), cy.maximum, Fin(1)>>]

\* Cone::check_cap; for an infinite t as in Cylinder::check_cap
Cone_check_cap(ray, t, y) ==
    IF t[1] # 0 THEN FALSE
    ELSE LET x == ray.origin[1] + t[2] * ray.direction[1]
             z == ray.origin[3] + t[2] * ray.direction[3]
             radius == IF y[2] < 0 THEN 0 - y[2] ELSE y[2]
         IN  x * x + z * z <= radius * radius

\* Cone::intersect_caps
Cone_intersect_caps(co, ray, intersections) ==
    IF ~co.closed \/ float_equal(ray.direction[2], 0) THEN intersections
    ELSE LET t_minimum == CapT(ray, co.minimum)
             t_maximum == CapT(ray, co.maximum)
             with_minimum == IF Cone_check_cap(ray, t_minimum, co.minimum)
                             THEN Append(intersections, t_minimum[2])
                             ELSE intersections
         IN  IF Cone_check_cap(ray, t_maximum, co.maximum)
             THEN Append(with_minimum, t_maximum[2])
             ELSE with_minimum

\* Cone::local_intersect
Cone_local_intersect(co, ray) ==
    LET a == ray.direction[1] * ray.direction[1] - ray.direction[2] * ray.direction[2]
                 + ray.direction[3] * ray.direction[3]
        b == 2 * ray.origin[1] * ray.direction[1] - 2 * ray.origin[2] * ray.direction[2]
                 + 2 * ray.origin[3] * ray.direction[3]
        c == ray.origin[1] * ray.origin[1] - ray.origin[2] * ray.origin[2]
                 + ray.origin[3] * ray.origin[3]
        t == (0 - c) \div (2 * b)
        discriminant == b * b - 4 * a * c
        sqrt_disc == sqrt(discriminant)
        denom == 2 * a
        r0 == ((0 - b) - sqrt_disc) \div denom
        r1 == ((0 - b) + sqrt_disc) \div denom
        t0 == IF r0 > r1 THEN r1 ELSE r0
        t1 == IF r0 > r1 THEN r0 ELSE r1
        xs0 == IF Within(co, YAt(ray, t0)) THEN <<t0>> ELSE <<>>
        xs1 == IF Within(co, YAt(ray, t1)) THEN Append(xs0, t1) ELSE xs0
    IN  IF float_equal(a, 0)
        THEN IF float_equal(b, 0) THEN Cone_intersect_caps(co, ray, <<>>)
             ELSE Cone_intersect_caps(co, ray,
                      IF Within(co, YAt(ray, t)) THEN <<t>> ELSE <<>>)
        ELSE IF discriminant < 0 THEN Cone_intersect_caps(co, ray, <<>>)
        ELSE Cone_intersect_caps(co, ray, xs1)

\* Cone::local_normal_at, for a point of whole coordinates
Cone_local_normal_at(co, point) ==
    LET dist == point[1] * point[1] + point[3] * point[3]
        y == sqrt(dist)
    IN  IF dist < 1 /\ FLe(co.maximum, Fin(point[2])) THEN <<0, 1, 0>>
        ELSE IF dist < 1 /\ FLe(Fin(point[2]), co.minimum) THEN <<0, -1, 0>>
        ELSE <<point[1], IF point[2] > 0 THEN 0 - y ELSE y, point[3]>>

\* Sphere::bounds
Sphere_bounds ==
    [min |-> <<Fin(-1), Fin(-1), Fin(-1)>>, max |-> <<Fin(1), Fin(1), Fin(1)>>]

RECURSIVE Group_bounds(_)
RECURSIVE Group_bounds_in_parent_space(_)
RECURSIVE MergeChildBounds(_, _)

\* The loop of Group::bounds over the children
MergeChildBounds(group_bounds, children) ==
    IF children = <<>> THEN group_bounds
    ELSE LET child == Head(children)
             child_bounds == IF child.kind = "group" THEN Group_bounds(child)
                             ELSE IF child.kind = "cylinder"
                             THEN Cylinder_bounds(child)
                             ELSE Sphere_bounds
             transformed_bounds == Bounds_transform(child_bounds, child.transformation)
         IN  MergeChildBounds(merge(group_bounds, transformed_bounds), Tail(children))

\* Group::bounds as it would be if it gave the bounds in the space of the
\* parent of the group
Group_bounds_in_parent_space(g) ==
    Bounds_transform(MergeChildBounds(Bounds_empty, g.children), g.transformation)

\* Group::bounds
Group_bounds(g) == MergeChildBounds(Bounds_empty, g.children)

RECURSIVE intersect(_, _)
RECURSIVE Group_local_intersect(_, _)
RECURSIVE Group_local_intersect_calls(_, _)
RECURSIVE Group_local_intersect_without_bounds(_, _)
RECURSIVE ExtendIntersect(_, _)

\* The loop of Group::local_intersect: every child's intersect, in order
ExtendIntersect(children, ray) ==
    IF children = <<>> THEN <<>>
    ELSE intersect(Head(children), ray) \o ExtendIntersect(Tail(children), ray)

\* Group::local_intersect as it would be without the test of the bounds
Group_local_intersect_without_bounds(g, ray) ==
    [child_intersects |-> Len(g.children),
     value |-> sort_f64(ExtendIntersect(g.children, ray))]

\* Group::local_intersect, with the number of children whose intersect it
\* has called beside the list it returns
Group_local_intersect_calls(g, ray) ==
    IF ~intersects(Group_bounds(g), ray)
    THEN [child_intersects |-> 0, value |-> <<>>]
    ELSE [child_intersects |-> Len(g.children),
          value |-> sort_f64(ExtendIntersect(g.children, ray))]

\* Group::local_intersect
Group_local_intersect(g, ray) == Group_local_intersect_calls(g, ray).value

\* Object::intersect (Intersectable)
intersect(o, ray) ==
    LET local_ray == transform(ray, inverse(o.transformation))
    IN  IF o.kind = "group"
        THEN Group_local_intersect(o, local_ray)
        ELSE IF o.kind = "cylinder" THEN Cylinder_local_intersect(o, local_ray)
        ELSE IF o.kind = "cone" THEN Cone_local_intersect(o, local_ray)
        ELSE Sphere_local_intersect(local_ray)

RECURSIVE intersect_with_object(_, _, _)
RECURSIVE ExtendWithObject(_, _, _, _)

\* The loop of intersect_with_object over g.children(), from child i on
ExtendWithObject(o, ref, ray, i) ==
    IF i > Len(o.children) THEN <<>>
    ELSE intersect_with_object(o.children[i], Append(ref, i), ray)
             \o ExtendWithObject(o, ref, ray, i + 1)

\* intersect_with_object as it would be if a group tagged the hits of its
\* children with itself
intersect_with_object_tagging_group(o, ref, r) ==
    LET ts == intersect(o, r)
    IN  [i \in DOMAIN ts |-> [t |-> ts[i], object |-> ref]]

\* Object::intersect_with_object (Intersectable); ref is the reference to o
intersect_with_object(o, ref, r) ==
    IF o.kind = "group"
    THEN LET local_ray == transform(r, inverse(o.transformation))
         IN  IF ~intersects(Group_bounds(o), local_ray)
             THEN <<>>
             ELSE sort_by_t(ExtendWithObject(o, ref, local_ray, 1))
    ELSE LET ts == intersect(o, r)
         IN  [i \in DOMAIN ts |-> [t |-> ts[i], object |-> ref]]

RECURSIVE Deref(_, _)

\* The object a reference leads to, from the list of objects that owns it
Deref(objects, ref) ==
    IF Len(ref) = 1 THEN objects[ref[1]]
    ELSE Deref(objects[ref[1]].children, Tail(ref))

-----------------------------------------------------------------------------
(* rendering::intersections::Intersection *)

\* Option<Intersection>
None == [some |-> FALSE]

Some(x) == [some |-> TRUE, value |-> x]

RECURSIVE hit(_)
RECURSIVE hit_strictly_positive(_)

\* hit as it would be if t = 0 did not count
hit_strictly_positive(intersections) ==
    IF intersections = <<>> THEN None
    ELSE IF Head(intersections).t > 0 THEN Some(Head(intersections))
    ELSE hit_strictly_positive(Tail(intersections))

\* Intersection::hit: intersections.iter().find(|i| i.t >= 0.0).cloned()
hit(intersections) ==
    IF intersections = <<>> THEN None
    ELSE IF Head(intersections).t >= 0 THEN Some(Head(intersections))
    ELSE hit(Tail(intersections))

-----------------------------------------------------------------------------
(* rendering::world::World: [objects |-> list of Object] *)

RECURSIVE WorldExtend(_, _, _)

\* The loop of World::intersect, from object k on
WorldExtend(w, ray, k) ==
    IF k > Len(w.objects) THEN <<>>
    ELSE LET ts == intersect(w.objects[k], ray)
         IN  [i \in DOMAIN ts |-> [t |-> ts[i], object |-> <<k>>]]
                 \o WorldExtend(w, ray, k + 1)

\* World::intersect
World_intersect(w, ray) == sort_by_t(WorldExtend(w, ray, 1))

-----------------------------------------------------------------------------
(* World::intersect and Object::intersect_with_object as functions of the   *)
(* world and the ray                                                        *)

\* Objects of a scene: spheres, an empty group, groups of one and of two
\* spheres (apart and overlapping), a group two deep, and a group that holds
\* an empty group
SceneObjects ==
    {Leaf(t) : t \in {identity, translate(1), translate(3)}}
    \cup {Grp(identity, <<>>)}
    \cup {Grp(t, <<Leaf(u)>>) : t \in {identity, translate(3)}, u \in {identity, translate(1)}}
    \cup {Grp(t, <<Leaf(translate(1)), Leaf(identity)>>) : t \in {identity, scale(-1)}}
    \cup {Grp(translate(1), <<Grp(translate(1), <<Leaf(identity)>>), Leaf(identity)>>)}
    \cup {Grp(identity, <<Grp(identity, <<>>)>>)}

RECURSIVE ObjectLists(_)

\* The lists of at most n scene objects
ObjectLists(n) ==
    IF n = 0 THEN {<<>>}
    ELSE LET shorter == ObjectLists(n - 1)
         IN  shorter \cup {Append(l, o) : l \in shorter, o \in SceneObjects}

\* Rays along the x axis, through the centres, tangent and past the spheres
Rays ==
    {[origin |-> <<x, y, 0>>, direction |-> <<d, 0, 0>>] :
        x \in {-3, 0}, y \in {0, 1, 2}, d \in {1, -1}}

WorldInit ==
    /\ arg \in [fn : {"intersect"}, world : [objects : ObjectLists(MaxObjects)], ray : Rays]
    /\ res = [done |-> FALSE]
    /\ heap = Unused /\ alive = Unused /\ ops = Unused /\ last = Unused
    /\ stack = Unused /\ calls = Unused
    /\ canvas = Unused /\ render = Unused

\* arg.world.intersect(arg.ray)
ApplyWorldIntersect ==
    /\ ~res.done
    /\ res' = [done |-> TRUE, fn |-> "World::intersect", k |-> 0,
               value |-> World_intersect(arg.world, arg.ray)]
    /\ UNCHANGED <<arg, treeVars, colorVars, renderVars>>

\* arg.world.objects[k].intersect_with_object(arg.ray)
ApplyIntersectWithObject(k) ==
    /\ ~res.done
    /\ res' = [done |-> TRUE, fn |-> "intersect_with_object", k |-> k,
               value |-> intersect_with_object(arg.world.objects[k], <<k>>, arg.ray)]
    /\ UNCHANGED <<arg, treeVars, colorVars, renderVars>>

\* The Intersection that color_at_internal hands to prepare_computations for
\* arg.ray, whose object is asked for its normal
ApplyColorAtHit ==
    /\ ~res.done
    /\ res' = [done |-> TRUE, fn |-> "color_at", k |-> 0,
               value |-> hit(World_intersect(arg.world, arg.ray))]
    /\ UNCHANGED <<arg, treeVars, colorVars, renderVars>>

WorldNext ==
    \/ ApplyWorldIntersect
    \/ \E k \in 1..Len(arg.world.objects) : ApplyIntersectWithObject(k)
    \/ ApplyColorAtHit

SpecWorld == WorldInit /\ [][WorldNext]_vars

\* C5: every Intersection that intersect_with_object returns references a
\* leaf object, never a group, however deep the groups are nested
C5_HitsReferenceLeaves ==
    (res.done /\ res.fn = "intersect_with_object") =>
        \A i \in DOMAIN res.value :
            Deref(arg.world.objects, res.value[i].object).kind # "group"

\* C5 happens: a group two deep was intersected and a returned hit
\* references the sphere in the inner group
C5_Witness ==
    /\ res.done /\ res.fn = "intersect_with_object"
    /\ arg.world.objects[res.k].kind = "group"
    /\ \E i \in DOMAIN res.value : Len(res.value[i].object) = 3

RECURSIVE PerObject(_, _, _)

\* The concatenation of intersect_with_object over the objects from k on
PerObject(w, ray, k) ==
    IF k > Len(w.objects) THEN <<>>
    ELSE intersect_with_object(w.objects[k], <<k>>, ray) \o PerObject(w, ray, k + 1)

\* C6: World::intersect returns the concatenation of every object's
\* intersect_with_object, each entry keeping the object reference that
\* intersect_with_object produced, sorted ascending by t
C6_WorldIntersect ==
    (res.done /\ res.fn = "World::intersect") =>
        res.value = sort_by_t(PerObject(arg.world, arg.ray, 1))

\* The part of C6 that the code keeps: the t values, and so the length
C6_SameTimes ==
    (res.done /\ res.fn = "World::intersect") =>
        LET expected == sort_by_t(PerObject(arg.world, arg.ray, 1))
        IN  /\ Len(res.value) = Len(expected)
            /\ \A i \in DOMAIN expected : res.value[i].t = expected[i].t

\* C22: color_at never asks a group for its normal: the hit it hands to
\* prepare_computations references a leaf object, whatever groups the world
\* holds
C22_HitReferencesLeaf ==
    (res.done /\ res.fn = "color_at" /\ res.value.some) =>
        Deref(arg.world.objects, res.value.value.object).kind # "group"

-----------------------------------------------------------------------------
(* The lists Intersection::hit is applied to *)

RECURSIVE ListsOver(_, _)

\* The lists of at most n elements of S
ListsOver(S, n) ==
    IF n = 0 THEN {<<>>}
    ELSE LET shorter == ListsOver(S, n - 1)
         IN  shorter \cup {Append(l, x) : l \in shorter, x \in S}

\* Intersections of two objects at t = -1, 0, 1, 2
HitEntries == [t : -1..2, object : {<<1>>, <<2>>}]

HitInit ==
    /\ arg \in [fn : {"hit"}, xs : ListsOver(HitEntries, MaxHitLen)]
    /\ res = [done |-> FALSE]
    /\ heap = Unused /\ alive = Unused /\ ops = Unused /\ last = Unused
    /\ stack = Unused /\ calls = Unused
    /\ canvas = Unused /\ render = Unused

\* Intersection::hit(arg.xs), the list in the order given
ApplyHit ==
    /\ ~res.done
    /\ res' = [done |-> TRUE, fn |-> "hit", value |-> hit(arg.xs)]
    /\ UNCHANGED <<arg, treeVars, colorVars, renderVars>>

\* Intersection::hit on the list sorted by t first, as color_at_internal
\* gets it from World::intersect
ApplySortedHit ==
    /\ ~res.done
    /\ res' = [done |-> TRUE, fn |-> "sorted_hit", value |-> hit(sort_by_t(arg.xs))]
    /\ UNCHANGED <<arg, treeVars, colorVars, renderVars>>

HitNext == ApplyHit \/ ApplySortedHit

SpecHit == HitInit /\ [][HitNext]_vars

IsSortedByT(xs) == \A i, j \in DOMAIN xs : i < j => xs[i].t <= xs[j].t

NonNegative(xs) == {xs[i].t : i \in {j \in DOMAIN xs : xs[j].t >= 0}}

\* C7: on a list sorted ascending by t, hit returns the first entry with
\* t >= 0, t = 0 included, and None when the list is empty or every t is
\* negative
C7_HitOnSortedList ==
    (res.done /\ res.fn = "hit" /\ IsSortedByT(arg.xs)) =>
        IF \E i \in DOMAIN arg.xs : arg.xs[i].t >= 0
        THEN /\ res.value.some
             /\ \E k \in DOMAIN arg.xs :
                    /\ arg.xs[k] = res.value.value
                    /\ arg.xs[k].t >= 0
                    /\ \A j \in 1..(k - 1) : arg.xs[j].t < 0
        ELSE res.value = None

\* C7 happens: hit was applied to a sorted list that starts with a negative
\* t and whose first non-negative t is 0
C7_Witness ==
    /\ res.done /\ res.fn = "hit" /\ IsSortedByT(arg.xs)
    /\ Len(arg.xs) >= 3
    /\ arg.xs[1].t < 0
    /\ res.value.some /\ res.value.value.t = 0

\* The result is the minimum non-negative t of the list, None if there is none
IsLowestNonNegative(r, xs) ==
    IF NonNegative(xs) = {}
    THEN r = None
    ELSE /\ r.some
         /\ r.value.t \in NonNegative(xs)
         /\ \A t \in NonNegative(xs) : r.value.t <= t

\* C8 as stated: for every list in every order, hit returns the minimum
\* non-negative t of the list, or None when all t are negative
C8_HitOrderInvariant ==
    (res.done /\ res.fn = "hit") => IsLowestNonNegative(res.value, arg.xs)

\* C8 amended: for every list in every order, hit applied after the list was
\* sorted ascending by t returns the minimum non-negative t of the list, or
\* None when all t are negative
C8_SortedHitOrderInvariant ==
    (res.done /\ res.fn = "sorted_hit") => IsLowestNonNegative(res.value, arg.xs)

\* C8 happens: an unsorted list whose first non-negative entry is not the
\* lowest was sorted and hit returned the lowest
C8_Witness ==
    /\ res.done /\ res.fn = "sorted_hit"
    /\ ~IsSortedByT(arg.xs)
    /\ res.value.some
    /\ hit(arg.xs).value.t > res.value.value.t

-----------------------------------------------------------------------------
(* Intersection::prepare_computations_for_intersections: n1 and n2 *)

\* containers.last().map(|obj| obj.material().refractive_index).unwrap_or(1.0)
LastRefractiveIndex(objects, containers) ==
    IF containers = <<>> THEN 10
    ELSE Deref(objects, containers[Len(containers)]).material.refractive_index

\* containers.iter().position(..) then remove(index), or push
UpdateContainers(containers, object) ==
    LET found == {i \in DOMAIN containers : containers[i] = object}
    IN  IF found # {}
        THEN LET index == CHOOSE i \in found : \A j \in found : i <= j
             IN  SubSeq(containers, 1, index - 1)
                     \o SubSeq(containers, index + 1, Len(containers))
        ELSE Append(containers, object)

RECURSIVE ContainersLoop(_, _, _, _, _, _, _)

\* The for loop over the intersections, from entry i on
ContainersLoop(objects, self, intersections, i, containers, n1, n2) ==
    IF i > Len(intersections) THEN [n1 |-> n1, n2 |-> n2]
    ELSE LET intersection == intersections[i]
             is_hit == /\ intersection.object = self.object
                       /\ float_equal(intersection.t, self.t)
             n1a == IF is_hit THEN LastRefractiveIndex(objects, containers) ELSE n1
             updated == UpdateContainers(containers, intersection.object)
         IN  IF is_hit
             THEN [n1 |-> n1a, n2 |-> LastRefractiveIndex(objects, updated)]
             ELSE ContainersLoop(objects, self, intersections, i + 1, updated, n1a, n2)

\* The function as it would be if n1 were read after the containers changed
prepare_computations_n1_after_update(objects, self, intersections) ==
    LET n == ContainersLoop(objects, self, intersections, 1, <<>>, 10, 10)
    IN  [time |-> self.t, object |-> self.object, n1 |-> n.n2, n2 |-> n.n2]

\* Intersection::prepare_computations_for_intersections: the time, the
\* object, n1 and n2 of the Computations
prepare_computations_for_intersections(objects, self, intersections) ==
    LET n == ContainersLoop(objects, self, intersections, 1, <<>>, 10, 10)
    IN  [time |-> self.t, object |-> self.object, n1 |-> n.n1, n2 |-> n.n2]

\* Intersection::prepare_computations
prepare_computations(objects, self) ==
    prepare_computations_for_intersections(objects, self, <<self>>)

\* Three glass spheres with refractive indices 1.5, 2.0 and 2.5
GlassObjects ==
    [i \in 1..3 |-> [sphere EXCEPT !.material.transparency = 1,
                                   !.material.refractive_index = 10 + 5 * i]]

RECURSIVE SortedEntries(_)

\* The lists of 1 to n intersections of the three objects with t ascending,
\* equal t included
SortedEntries(n) ==
    IF n = 1 THEN {<<[t |-> 1, object |-> <<o>>]>> : o \in 1..3}
    ELSE LET shorter == SortedEntries(n - 1)
             longest == {l \in shorter : Len(l) = n - 1}
         IN  shorter \cup
             {Append(l, [t |-> l[Len(l)].t + d, object |-> <<o>>]) :
                 l \in longest, d \in {0, 1}, o \in 1..3}

PrepInit ==
    /\ arg \in {[fn |-> "prepare", objects |-> GlassObjects, xs |-> l, k |-> k] :
                    l \in SortedEntries(MaxPrepLen), k \in 1..MaxPrepLen}
    /\ arg.k <= Len(arg.xs)
    /\ res = [done |-> FALSE]
    /\ heap = Unused /\ alive = Unused /\ ops = Unused /\ last = Unused
    /\ stack = Unused /\ calls = Unused
    /\ canvas = Unused /\ render = Unused

\* arg.xs[k].prepare_computations_for_intersections(ray, &arg.xs)
ApplyPrepare ==
    /\ ~res.done
    /\ res' = [done |-> TRUE,
               value |-> prepare_computations_for_intersections(
                             arg.objects, arg.xs[arg.k], arg.xs)]
    /\ UNCHANGED <<arg, treeVars, colorVars, renderVars>>

PrepNext == ApplyPrepare

SpecPrep == PrepInit /\ [][PrepNext]_vars

\* The entry the loop takes for the hit: the first with the object and t of self
HitEntry(xs, self) ==
    CHOOSE h \in DOMAIN xs :
        /\ xs[h].object = self.object /\ xs[h].t = self.t
        /\ \A j \in 1..(h - 1) : ~(xs[j].object = self.object /\ xs[j].t = self.t)

\* The objects the ray is inside of after the first n entries: those met an
\* odd number of times
InsideAfter(xs, n) ==
    {o \in {xs[i].object : i \in 1..n} :
        Cardinality({i \in 1..n : xs[i].object = o}) % 2 = 1}

\* The refractive index of the object entered last among those the ray is
\* inside of after the first n entries, 1.0 when it is inside of none
MediumAfter(objects, xs, n) ==
    IF InsideAfter(xs, n) = {} THEN 10
    ELSE LET entered(o) == CHOOSE i \in 1..n :
                               /\ xs[i].object = o
                               /\ \A j \in (i + 1)..n : xs[j].object # o
             top == CHOOSE o \in InsideAfter(xs, n) :
                        \A p \in InsideAfter(xs, n) : entered(p) <= entered(o)
         IN  Deref(objects, top).material.refractive_index

\* C9: the list is replayed up to the hit as a container list (an object met
\* for the first time is added, met again it is removed); n1 is the
\* refractive index of the last container before the hit entry is applied,
\* n2 the one after it is applied, each 1.0 when the container list is empty
\* at that moment.  The hit entry is the first entry that has the object and
\* the t of the intersection the computations are prepared for.
C9_RefractiveIndices ==
    res.done =>
        LET h == HitEntry(arg.xs, arg.xs[arg.k])
        IN  /\ res.value.n1 = MediumAfter(arg.objects, arg.xs, h - 1)
            /\ res.value.n2 = MediumAfter(arg.objects, arg.xs, h)

\* C9 happens: the hit is the fifth entry, the exit of an object that was
\* entered inside another one which is still open, after a third object was
\* entered and left: n1 and n2 are two different indices, neither of them 1.0
C9_Witness ==
    /\ res.done
    /\ arg.k = 5
    /\ HitEntry(arg.xs, arg.xs[arg.k]) = arg.k
    /\ IsSortedByT(arg.xs)
    /\ Cardinality(InsideAfter(arg.xs, arg.k - 1)) = 2
    /\ arg.xs[arg.k].object \in InsideAfter(arg.xs, arg.k - 1)
    /\ Cardinality({arg.xs[i].object : i \in 1..(arg.k - 1)}) = 3
    /\ res.value.n1 # res.value.n2
    /\ res.value.n1 # 10 /\ res.value.n2 # 10

-----------------------------------------------------------------------------
(* World::color_at: the mutual recursion of color_at_internal,               *)
(* shade_hit_internal, reflected_color_internal and refracted_color_internal *)
(* as a call stack.  What a ray hits depends on the world and on the ray:    *)
(* every call of color_at_internal takes any of the outcomes World::intersect *)
(* and Intersection::hit can give it, so that a run of the machine stands    *)
(* for a ray in some world, two facing mirrors among them.                   *)

DEFAULT_MAX_REFLECTION_DEPTH == 5

DEFAULT_MAX_REFRACTION_DEPTH == 5

\* Frames the call stack may hold; a call beyond them overflows it
MaxStack == 20

\* What the recursion reads of the Computations of a hit: the reflectivity and
\* transparency of the material of the object (0 for 0.0, 1 for a positive
\* value), whether sin2_t > 1.0 (total internal reflection) and whether the
\* object of the hit is a Group, which has no normal
Computations ==
    {c \in [reflectivity : {0, 1}, transparency : {0, 1},
            sin2_t_above_1 : BOOLEAN, group : BOOLEAN] :
        /\ c.sin2_t_above_1 => c.transparency = 1
        /\ c.group => (c.reflectivity = 0 /\ c.transparency = 0)}

NoComputations ==
    [reflectivity |-> 0, transparency |-> 0, sin2_t_above_1 |-> FALSE, group |-> FALSE]

\* A Color as far as the recursion is followed: "black" is Color::black(),
\* "color" any value the arithmetic on colors gives, "none" no value yet
\* A call in progress: the function, where it is in its body, its arguments
\* and, once it returns, the color it returns
Frame(fn, pc, comps, remaining) ==
    [fn |-> fn, pc |-> pc, comps |-> comps, remaining |-> remaining,
     value |-> "none"]

\* What a function does next: it returns Color::BLACK without another call,
\* or it calls color_at_internal with a depth
ReturnsBlack == [recurses |-> FALSE]

CallsColorAtInternal(remaining) == [recurses |-> TRUE, remaining |-> remaining]

\* reflected_color_internal as it would be if it passed remaining on as it is
reflected_color_internal_same_depth(comps, remaining) ==
    IF remaining = 0 THEN ReturnsBlack
    ELSE IF comps.reflectivity = 0 THEN ReturnsBlack
    ELSE CallsColorAtInternal(remaining)

\* refracted_color_internal as it would be without its check of remaining
refracted_color_internal_without_depth_check(comps, remaining) ==
    IF comps.transparency = 0 THEN ReturnsBlack
    ELSE IF comps.sin2_t_above_1 THEN ReturnsBlack
    ELSE CallsColorAtInternal(remaining - 1)

\* refracted_color_internal as it would be if refraction had a budget of
\* its own, started afresh at every refraction
refracted_color_internal_with_own_budget(comps, remaining) ==
    IF remaining = 0 THEN ReturnsBlack
    ELSE IF comps.transparency = 0 THEN ReturnsBlack
    ELSE IF comps.sin2_t_above_1 THEN ReturnsBlack
    ELSE CallsColorAtInternal(DEFAULT_MAX_REFRACTION_DEPTH - 1)

\* remaining is a u32; it is positive where 1 is subtracted from it
reflected_color_internal(comps, remaining) ==
    IF remaining = 0 THEN ReturnsBlack
    ELSE IF comps.reflectivity = 0 THEN ReturnsBlack
    ELSE CallsColorAtInternal(remaining - 1)

refracted_color_internal(comps, remaining) ==
    IF remaining = 0 THEN ReturnsBlack
    ELSE IF comps.transparency = 0 THEN ReturnsBlack
    ELSE IF comps.sin2_t_above_1 THEN ReturnsBlack
    ELSE CallsColorAtInternal(remaining - 1)

Top == stack[Len(stack)]

Push(frames) == stack' = SubSeq(stack, 1, Len(stack) - 1) \o frames

\* The call on top, now at pc, calls callee; with the stack full the call
\* overflows it and the program never gets the color
Call(pc, callee) ==
    IF Len(stack) < MaxStack
    THEN Push(<<[Top EXCEPT !.pc = pc], callee>>)
    ELSE Push(<<[Top EXCEPT !.pc = "stack_overflow"]>>)

\* The call on top returns the color v
Returns(v) == Push(<<[Top EXCEPT !.pc = "return", !.value = v]>>)

\* The caller goes on after the call it waited for has returned v:
\* shade_hit_internal calls refracted_color_internal after the reflected
\* color and then returns the sum of the surface color and the two colors,
\* the two functions that recurse return the color scaled by the material,
\* color_at_internal and color_at return the color as it is
Resume(f, v) ==
    IF f.fn = "shade_hit_internal"
    THEN IF f.pc = "reflected"
         THEN [f EXCEPT !.pc = "refract"]
         ELSE [f EXCEPT !.pc = "return", !.value = "color"]
    ELSE IF f.fn \in {"reflected_color_internal", "refracted_color_internal"}
    THEN [f EXCEPT !.pc = "return", !.value = "color"]
    ELSE [f EXCEPT !.pc = "return", !.value = v]

\* One more call of color_at_internal, in the runs that count them
Counted(c) == [c EXCEPT !.count = IF c.counting THEN @ + 1 ELSE @]

ColorInit ==
    /\ stack = <<Frame("color_at", "start", NoComputations, 0)>>
    /\ calls \in {[light_source |-> l, lowest |-> DEFAULT_MAX_REFLECTION_DEPTH,
                   mirrors_only |-> TRUE, outcome |-> "running",
                   value |-> "none", counting |-> FALSE, count |-> 0] :
                       l \in BOOLEAN}
    /\ heap = Unused /\ alive = Unused /\ ops = Unused /\ last = Unused
    /\ arg = Unused /\ res = Unused
    /\ canvas = Unused /\ render = Unused

Running == calls.outcome = "running" /\ stack # <<>>

\* color_at: self.color_at_internal(ray, DEFAULT_MAX_REFLECTION_DEPTH)
ColorAt ==
    /\ Running /\ Top.fn = "color_at" /\ Top.pc = "start"
    /\ Call("called",
            Frame("color_at_internal", "start", NoComputations,
                  DEFAULT_MAX_REFLECTION_DEPTH))
    /\ UNCHANGED <<calls, treeVars, fnVars, renderVars>>

\* color_at_internal, no hit: Color::black()
ColorAtInternalNone ==
    /\ Running /\ Top.fn = "color_at_internal" /\ Top.pc = "start"
    /\ Returns("black")
    /\ calls' = Counted([calls EXCEPT !.lowest = Top.remaining])
    /\ UNCHANGED <<treeVars, fnVars, renderVars>>

\* color_at_internal, a hit on a shape: prepare_computations, then
\* shade_hit_internal with the same remaining
ColorAtInternalSome(comps) ==
    /\ Running /\ Top.fn = "color_at_internal" /\ Top.pc = "start"
    /\ ~comps.group
    /\ Call("called",
            Frame("shade_hit_internal", "start", comps, Top.remaining))
    /\ calls' = Counted([calls EXCEPT
                            !.lowest = Top.remaining,
                            !.mirrors_only = @ /\ comps.reflectivity = 1
                                               /\ comps.transparency = 0])
    /\ UNCHANGED <<treeVars, fnVars, renderVars>>

\* color_at_internal, a hit World::intersect tagged with a Group:
\* prepare_computations asks the group for a normal, which panics
ColorAtInternalPanic(comps) ==
    /\ Running /\ Top.fn = "color_at_internal" /\ Top.pc = "start"
    /\ comps.group
    /\ stack' = <<>>
    /\ calls' = Counted([calls EXCEPT !.lowest = Top.remaining,
                                      !.mirrors_only = FALSE,
                                      !.outcome = "panic"])
    /\ UNCHANGED <<treeVars, fnVars, renderVars>>

\* shade_hit_internal up to its first call: black without a light source,
\* else is_shadowed and lighting, then reflected_color_internal
ShadeHitInternal ==
    /\ Running /\ Top.fn = "shade_hit_internal" /\ Top.pc = "start"
    /\ IF ~calls.light_source
       THEN Returns("black")
       ELSE Call("reflected",
                 Frame("reflected_color_internal", "start", Top.comps,
                       Top.remaining))
    /\ UNCHANGED <<calls, treeVars, fnVars, renderVars>>

\* shade_hit_internal after the reflected color: refracted_color_internal
ShadeHitRefract ==
    /\ Running /\ Top.fn = "shade_hit_internal" /\ Top.pc = "refract"
    /\ Call("refracted",
            Frame("refracted_color_internal", "start", Top.comps, Top.remaining))
    /\ UNCHANGED <<calls, treeVars, fnVars, renderVars>>

\* A step of the two functions that recurse
Recursion(fn, step) ==
    /\ Running /\ Top.fn = fn /\ Top.pc = "start"
    /\ IF step.recurses
       THEN Call("called",
                 Frame("color_at_internal", "start", NoComputations,
                       step.remaining))
       ELSE Returns("black")
    /\ UNCHANGED <<calls, treeVars, fnVars, renderVars>>

ReflectedColorInternal ==
    /\ Running /\ Top.fn = "reflected_color_internal"
    /\ Recursion("reflected_color_internal",
                 reflected_color_internal(Top.comps, Top.remaining))

RefractedColorInternal ==
    /\ Running /\ Top.fn = "refracted_color_internal"
    /\ Recursion("refracted_color_internal",
                 refracted_color_internal(Top.comps, Top.remaining))

\* The call on top returns to its caller; color_at returns to the program
Return ==
    /\ Running /\ Top.pc = "return"
    /\ IF Len(stack) = 1
       THEN /\ stack' = <<>>
            /\ calls' = [calls EXCEPT !.outcome = "returned", !.value = Top.value]
       ELSE /\ stack' = SubSeq(stack, 1, Len(stack) - 2)
                            \o <<Resume(stack[Len(stack) - 1], Top.value)>>
            /\ UNCHANGED calls
    /\ UNCHANGED <<treeVars, fnVars, renderVars>>

ColorNext ==
    \/ ColorAt
    \/ ColorAtInternalNone
    \/ \E comps \in Computations : ColorAtInternalSome(comps)
    \/ \E comps \in Computations : ColorAtInternalPanic(comps)
    \/ ShadeHitInternal
    \/ ShadeHitRefract
    \/ ReflectedColorInternal
    \/ RefractedColorInternal
    \/ Return

\* One thread runs the calls: a call that can take its next step takes it
SpecColor == ColorInit /\ [][ColorNext]_vars /\ WF_vars(ColorNext)

\* C10: World::color_at terminates for every world and ray: the recursion of
\* color_at_internal, shade_hit_internal, reflected_color_internal and
\* refracted_color_internal always reaches calls that return without
\* recursing, so that the call stack of color_at is eventually empty
C10_ColorAtTerminates == <>(stack = <<>>)

\* C10 happens: color_at has returned a color after every ray met a fully
\* reflective opaque surface, as between two facing mirrors, and the recursion
\* went down to remaining = 0
C10_Witness ==
    /\ stack = <<>>
    /\ calls.outcome = "returned"
    /\ calls.light_source
    /\ calls.mirrors_only
    /\ calls.lowest = 0

\* The call on top is reflected_color_internal or refracted_color_internal
\* about to run with remaining = 0 or with a material that has nothing to
\* reflect, or nothing to let through
DepthOrMaterialExhausted ==
    /\ Running /\ Top.pc = "start"
    /\ \/ /\ Top.fn = "reflected_color_internal"
          /\ (Top.remaining = 0 \/ Top.comps.reflectivity = 0)
       \/ /\ Top.fn = "refracted_color_internal"
          /\ (Top.remaining = 0 \/ Top.comps.transparency = 0)

\* C11: reflected_color_internal with remaining = 0 or reflectivity = 0, and
\* refracted_color_internal with remaining = 0 or transparency = 0, return
\* black without casting a ray (no call of color_at_internal is made) and
\* without an error (the run goes on as it was)
C11_ExhaustionIsBlack ==
    [][DepthOrMaterialExhausted =>
          /\ stack' = SubSeq(stack, 1, Len(stack) - 1)
                          \o <<[Top EXCEPT !.pc = "return", !.value = "black"]>>
          /\ calls' = calls]_vars

\* C11 happens: the recursion went down to remaining = 0 through a surface
\* that reflects and lets light through, and refracted_color_internal has
\* returned black there
C11_Witness ==
    /\ stack # <<>>
    /\ Top.fn = "refracted_color_internal"
    /\ Top.pc = "return" /\ Top.value = "black"
    /\ Top.remaining = 0
    /\ Top.comps.transparency = 1 /\ ~Top.comps.sin2_t_above_1

\* With no light source shade_hit_internal returns black
ShadeHitBlackWithoutLight ==
    ~calls.light_source =>
        \A i \in 1..Len(stack) :
            (stack[i].fn = "shade_hit_internal" /\ stack[i].pc = "return")
                => stack[i].value = "black"

\* C12: with no light source color_at returns black for every ray, and
\* shade_hit black for every hit, without failing
C12_NoLightIsBlack ==
    ~calls.light_source =>
        /\ calls.outcome # "panic"
        /\ calls.outcome = "returned" => calls.value = "black"
        /\ ShadeHitBlackWithoutLight

\* The runs of color_at in which the calls of color_at_internal are counted
BudgetInit ==
    /\ stack = <<Frame("color_at", "start", NoComputations, 0)>>
    /\ calls \in {[light_source |-> l, lowest |-> DEFAULT_MAX_REFLECTION_DEPTH,
                   mirrors_only |-> TRUE, outcome |-> "running",
                   value |-> "none", counting |-> TRUE, count |-> 0] :
                       l \in BOOLEAN}
    /\ heap = Unused /\ alive = Unused /\ ops = Unused /\ last = Unused
    /\ arg = Unused /\ res = Unused
    /\ canvas = Unused /\ render = Unused

SpecBudget == BudgetInit /\ [][ColorNext]_vars

\* The frames of color_at_internal on the stack, outermost first
NestedColorAtInternal ==
    SelectSeq(stack, LAMBDA f : f.fn = "color_at_internal")

\* C25: along every chain of nested color_at_internal calls remaining starts
\* at 5 and is 1 less in each call than in the one that encloses it, be the
\* bounce a reflection or a refraction; no call has a remaining below 0 (1 is
\* never subtracted from 0); a chain has at most 6 nested calls and one
\* color_at makes at most 63 calls of color_at_internal
C25_DepthBudget ==
    /\ \A i \in DOMAIN NestedColorAtInternal :
           NestedColorAtInternal[i].remaining = 5 - (i - 1)
    /\ \A i \in DOMAIN stack : stack[i].remaining >= 0
    /\ \A i \in DOMAIN stack : stack[i].pc # "stack_overflow"
    /\ Len(NestedColorAtInternal) <= 6
    /\ calls.count <= 63

\* C25 happens: every ray of the run met a surface that reflects and lets
\* light through, the chains went down to remaining = 0 and the last of the
\* 63 calls of color_at_internal is under way, the sixth of its chain
C25_Witness ==
    /\ stack # <<>>
    /\ calls.counting /\ calls.count = 63
    /\ Len(NestedColorAtInternal) = 6
    /\ Top.fn = "color_at_internal" /\ Top.remaining = 0

-----------------------------------------------------------------------------
(* Group::local_intersect as a function of the group and the ray, which is  *)
(* in the space of the group                                                *)

\* The group of the test intersecting_ray_with_nonempty_group, along the x
\* axis: a sphere at the origin and one moved by -3
TwoSphereGroup == Grp(identity, <<Leaf(identity), Leaf(translate(-3))>>)

\* Groups: those of the scenes, the group of the test, and groups whose
\* spheres are met out of the order they were added in
LocalGroups ==
    {o \in SceneObjects : o.kind = "group"}
    \cup {TwoSphereGroup}
    \cup {Grp(identity, <<Leaf(translate(3)), Leaf(translate(-3)), Leaf(identity)>>)}

\* Rays along the x axis from before, between and inside the spheres
LocalRays ==
    {[origin |-> <<x, y, 0>>, direction |-> <<d, 0, 0>>] :
        x \in {-5, -3, 0}, y \in {0, 1, 2}, d \in {1, -1}}

\* Groups whose bounds are taken: the groups above and those of the tests
\* (two spheres 2 apart, a sphere in a group moved by 2), each with the
\* transforms a group is given
BoundsGroups ==
    {Grp(t, g.children) :
        t \in {identity, translate(2), scale(-1)},
        g \in LocalGroups
               \cup {Grp(identity, <<Leaf(identity), Leaf(translate(2))>>),
                     Grp(identity, <<Grp(translate(2), <<Leaf(identity)>>)>>),
                     Grp(identity, <<Grp(scale(-1), <<Leaf(translate(1))>>), Leaf(translate(-3))>>)}}

GroupInit ==
    /\ arg \in [fn : {"local_intersect"}, g : LocalGroups, ray : LocalRays]
                \cup [fn : {"bounds"}, g : BoundsGroups]
    /\ res = [done |-> FALSE]
    /\ heap = Unused /\ alive = Unused /\ ops = Unused /\ last = Unused
    /\ stack = Unused /\ calls = Unused
    /\ canvas = Unused /\ render = Unused

\* arg.g.local_intersect(arg.ray)
ApplyLocalIntersect ==
    /\ ~res.done /\ arg.fn = "local_intersect"
    /\ res' = [done |-> TRUE] @@ Group_local_intersect_calls(arg.g, arg.ray)
    /\ UNCHANGED <<arg, treeVars, colorVars, renderVars>>

\* arg.g.bounds()
ApplyGroupBounds ==
    /\ ~res.done /\ arg.fn = "bounds"
    /\ res' = [done |-> TRUE, value |-> Group_bounds(arg.g)]
    /\ UNCHANGED <<arg, treeVars, colorVars, renderVars>>

GroupNext == ApplyLocalIntersect \/ ApplyGroupBounds

SpecGroup == GroupInit /\ [][GroupNext]_vars

\* How many entries of the list ts are t
CountOf(ts, t) == Cardinality({i \in DOMAIN ts : ts[i] = t})

\* The list ts holds what the lists of every child's intersect hold, each t
\* as many times as they do together
HoldsChildrenIntersects(ts, g, ray) ==
    LET per_child == [i \in DOMAIN g.children |-> intersect(g.children[i], ray)]
        Total(t) == LET S[n \in 0..Len(per_child)] ==
                            IF n = 0 THEN 0 ELSE S[n - 1] + CountOf(per_child[n], t)
                    IN  S[Len(per_child)]
    IN  /\ \A i \in DOMAIN per_child : \A j \in DOMAIN per_child[i] :
              CountOf(ts, per_child[i][j]) = Total(per_child[i][j])
        /\ \A j \in DOMAIN ts : Total(ts[j]) > 0

\* C13: local_intersect returns an empty list, and calls intersect on no
\* child, when the ray misses the bounding box of the group; otherwise it
\* returns what the intersect of every child returns, ascending by t:
\* t = [1, 3, 4, 6] for spheres at the origin and at -3 and a ray from -5
C13_LocalIntersect ==
    (res.done /\ arg.fn = "local_intersect") =>
        /\ IF ~intersects(Group_bounds(arg.g), arg.ray)
           THEN res.value = <<>> /\ res.child_intersects = 0
           ELSE /\ res.child_intersects = Len(arg.g.children)
                /\ HoldsChildrenIntersects(res.value, arg.g, arg.ray)
                /\ \A i \in 1..(Len(res.value) - 1) : res.value[i] <= res.value[i + 1]
        /\ (/\ arg.g = TwoSphereGroup
            /\ arg.ray = [origin |-> <<-5, 0, 0>>, direction |-> <<1, 0, 0>>])
               => res.value = <<1, 3, 4, 6>>

\* C13 happens: the ray of the test has met the two spheres of the test,
\* the sphere added second first
C13_Witness ==
    /\ res.done /\ arg.fn = "local_intersect"
    /\ arg.g = TwoSphereGroup
    /\ arg.ray = [origin |-> <<-5, 0, 0>>, direction |-> <<1, 0, 0>>]
    /\ res.child_intersects = 2
    /\ Len(res.value) = 4

\* C13 happens as well: a ray has missed the box of a group that has children
C13_Pruned ==
    /\ res.done /\ arg.fn = "local_intersect"
    /\ arg.g.children # <<>>
    /\ ~intersects(Group_bounds(arg.g), arg.ray)

-----------------------------------------------------------------------------
(* Bounds::merge and Bounds::transform as functions of their arguments *)

\* Boxes along the x axis, the empty and the infinite bounds, and the bounds
\* of an unbounded cylinder and of a plane, infinite on some axes only
BoundsInputs ==
    {[min |-> <<Fin(l), Fin(-1), Fin(-1)>>, max |-> <<Fin(h), Fin(1), Fin(1)>>] :
        l \in (0 - MaxCoord)..MaxCoord, h \in (0 - MaxCoord)..MaxCoord}
    \cup {Bounds_empty, Bounds_infinite}
    \cup {[min |-> <<Fin(-1), NEG_INFINITY, Fin(-1)>>, max |-> <<Fin(1), INFINITY, Fin(1)>>],
          [min |-> <<NEG_INFINITY, Fin(0), NEG_INFINITY>>, max |-> <<INFINITY, Fin(0), INFINITY>>],
          [min |-> <<Fin(-1), Fin(-1), Fin(-1)>>, max |-> <<Fin(1), INFINITY, Fin(1)>>]}

\* Boxes whose min is not beyond their max on any axis
ProperBounds == {b \in BoundsInputs : \A i \in 1..3 : FLe(b.min[i], b.max[i])}

MatrixInputs == {identity, translate(1), scale(-1), Mul(translate(1), scale(-1))}

BoundsInit ==
    /\ arg \in [fn : {"merge"}, a : ProperBounds \cup {Bounds_empty},
                b : ProperBounds \cup {Bounds_empty},
                c : {Bounds_empty, Bounds_infinite,
                     [min |-> <<Fin(0), Fin(-1), Fin(-1)>>,
                      max |-> <<Fin(MaxCoord), Fin(1), Fin(1)>>]}]
          \cup [fn : {"transform"}, a : BoundsInputs, m : MatrixInputs]
    /\ res = [done |-> FALSE]
    /\ heap = Unused /\ alive = Unused /\ ops = Unused /\ last = Unused
    /\ stack = Unused /\ calls = Unused
    /\ canvas = Unused /\ render = Unused

\* The merges of arg.a, arg.b and arg.c in their orders, and with empty()
ApplyMerge ==
    /\ ~res.done /\ arg.fn = "merge"
    /\ res' = [done |-> TRUE,
               ab |-> merge(arg.a, arg.b),
               ba |-> merge(arg.b, arg.a),
               ab_c |-> merge(merge(arg.a, arg.b), arg.c),
               a_bc |-> merge(arg.a, merge(arg.b, arg.c)),
               empty_b |-> merge(Bounds_empty, arg.b),
               b_empty |-> merge(arg.b, Bounds_empty)]
    /\ UNCHANGED <<arg, treeVars, colorVars, renderVars>>

\* arg.a.transform(arg.m)
ApplyTransform ==
    /\ ~res.done /\ arg.fn = "transform"
    /\ res' = [done |-> TRUE, value |-> Bounds_transform(arg.a, arg.m)]
    /\ UNCHANGED <<arg, treeVars, colorVars, renderVars>>

BoundsNext == ApplyMerge \/ ApplyTransform

SpecBounds == BoundsInit /\ [][BoundsNext]_vars

\* C14: merge gives the same bounds in either order of its arguments and in
\* either grouping of three, and Bounds::empty() is its identity on both sides
C14_MergeOrderIndependent ==
    (res.done /\ arg.fn = "merge") =>
        /\ res.ab = res.ba
        /\ res.ab_c = res.a_bc
        /\ res.empty_b = arg.b
        /\ res.b_empty = arg.b

\* The part of C14 the code keeps: on bounds other than empty() merge does
\* not depend on the order, and empty() merged with such a bounds gives it
C14_ProperMergeOrderIndependent ==
    (res.done /\ arg.fn = "merge") =>
        /\ arg.b \in ProperBounds => res.empty_b = arg.b
        /\ ({arg.a, arg.b, arg.c} \subseteq ProperBounds)
              => (res.ab = res.ba /\ res.ab_c = res.a_bc)

\* C15: transform of a bounds that has an infinite coordinate gives the
\* infinite bounds, -infinity to +infinity on every axis, and no NaN
C15_TransformKeepsInfinite ==
    (/\ res.done /\ arg.fn = "transform"
     /\ \E i \in 1..3 : is_infinite(arg.a.min[i]) \/ is_infinite(arg.a.max[i]))
        => /\ \A i \in 1..3 : /\ res.value.min[i] = NEG_INFINITY
                              /\ res.value.max[i] = INFINITY
           /\ \A i \in 1..3 : ~is_nan(res.value.min[i]) /\ ~is_nan(res.value.max[i])

\* C15 happens: a bounds infinite on one side of one axis only was transformed
\* by a matrix that mirrors and moves
C15_Witness ==
    /\ res.done /\ arg.fn = "transform"
    /\ arg.a.max[2] = INFINITY /\ arg.a.min[2] = Fin(-1)
    /\ arg.m = Mul(translate(1), scale(-1))
    /\ res.value = Bounds_infinite

RECURSIVE MergedChildren(_)

\* What the claim says the bounds of the group g are: starting from empty(),
\* the merge over the children in order of the bounds of the child (those of
\* a nested group being its own merged bounds) transformed by the local
\* transform of the child
MergedChildren(g) ==
    LET Of(child) == IF child.kind = "group" THEN MergedChildren(child)
                     ELSE Sphere_bounds
        Upto[n \in 0..Len(g.children)] ==
            IF n = 0 THEN Bounds_empty
            ELSE merge(Upto[n - 1],
                       Bounds_transform(Of(g.children[n]), g.children[n].transformation))
    IN  Upto[Len(g.children)]

\* C16: Group::bounds is the merge, from empty() on and over the children in
\* order, of every child's bounds transformed by the child's local transform;
\* the transform of the group itself plays no part, a nested group gives its
\* own bounds transformed by its local transform, and a group without
\* children has the empty bounds
C16_GroupBounds ==
    (res.done /\ arg.fn = "bounds") =>
        /\ res.value = MergedChildren(arg.g)
        /\ \A t \in BuildTransforms : res.value = Group_bounds(Grp(t, arg.g.children))
        /\ arg.g.children = <<>> => res.value = Bounds_empty
        /\ arg.g.children = <<Leaf(identity), Leaf(translate(2))>>
              => res.value = [min |-> <<Fin(-1), Fin(-1), Fin(-1)>>,
                              max |-> <<Fin(3), Fin(1), Fin(1)>>]

\* C16 happens: the bounds of a moved group that holds a moved group of one
\* sphere were taken, and they are those of the sphere moved by the inner
\* group alone
C16_Witness ==
    /\ res.done /\ arg.fn = "bounds"
    /\ arg.g.transformation = translate(2)
    /\ Len(arg.g.children) = 1
    /\ arg.g.children[1].kind = "group"
    /\ arg.g.children[1].transformation = translate(2)
    /\ res.value = [min |-> <<Fin(1), Fin(-1), Fin(-1)>>,
                    max |-> <<Fin(3), Fin(1), Fin(1)>>]

-----------------------------------------------------------------------------
(* canvas::Canvas: [width |-> w, height |-> h, pixels |-> rows of colors];  *)
(* pixel (x, y) is pixels[y + 1][x + 1].  Colors are names.                 *)

Colors == {"black", "red"}

\* Canvas::new
Canvas_new(width, height) ==
    [width |-> width, height |-> height,
     pixels |-> [y \in 1..height |-> [x \in 1..width |-> "black"]]]

\* write_pixel as it would be if it indexed the column first
write_pixel_transposed(c, x, y, color) ==
    IF x >= c.width \/ y >= c.height
    THEN c
    ELSE [c EXCEPT !.pixels[x + 1][y + 1] = color]

\* Canvas::write_pixel
write_pixel(c, x, y, color) ==
    IF x >= c.width \/ y >= c.height
    THEN c
    ELSE [c EXCEPT !.pixels[y + 1][x + 1] = color]

\* Canvas::pixel_at
pixel_at(c, x, y) == c.pixels[y + 1][x + 1]

CanvasInit ==
    /\ canvas \in {Canvas_new(w, h) : w \in 0..MaxSide, h \in 0..MaxSide}
    /\ arg = [fn |-> "new", x |-> 0, y |-> 0, color |-> "black"]
    /\ res = Unused
    /\ heap = Unused /\ alive = Unused /\ ops = Unused /\ last = Unused
    /\ stack = Unused /\ calls = Unused /\ render = Unused

\* canvas.write_pixel(x, y, &color), in the canvas and beyond its sides
WritePixel(x, y, color) ==
    /\ canvas' = write_pixel(canvas, x, y, color)
    /\ arg' = [fn |-> "write_pixel", x |-> x, y |-> y, color |-> color]
    /\ UNCHANGED <<res, render, treeVars, colorVars>>

CanvasNext ==
    \E x \in 0..(MaxSide + 1), y \in 0..(MaxSide + 1), color \in Colors :
        WritePixel(x, y, color)

SpecCanvas == CanvasInit /\ [][CanvasNext]_vars

\* C17: write_pixel(x, y, c) with x >= width or y >= height leaves every
\* pixel as it was; with x < width and y < height it sets pixel (x, y) to c
\* and leaves every other pixel, and the size, as they were
C17_WritePixel ==
    [][arg'.fn = "write_pixel" =>
          /\ canvas'.width = canvas.width /\ canvas'.height = canvas.height
          /\ DOMAIN canvas'.pixels = DOMAIN canvas.pixels
          /\ \A y \in 0..(canvas.height - 1) :
                /\ DOMAIN canvas'.pixels[y + 1] = DOMAIN canvas.pixels[y + 1]
                /\ \A x \in 0..(canvas.width - 1) :
                      pixel_at(canvas', x, y) =
                          IF x = arg'.x /\ y = arg'.y THEN arg'.color
                          ELSE pixel_at(canvas, x, y)]_vars

\* C17 happens: a canvas wider than high holds a pixel written in its last
\* column, and a write beyond its last row has just been ignored
C17_Witness ==
    /\ arg.fn = "write_pixel"
    /\ canvas.width = 2 /\ canvas.height = 1
    /\ arg.x = 1 /\ arg.y = canvas.height /\ arg.color = "red"
    /\ pixel_at(canvas, 1, 0) = "red"
    /\ pixel_at(canvas, 0, 0) = "black"

-----------------------------------------------------------------------------
(* Camera::render.  The ray through a pixel and the color a world shows     *)
(* along a ray are f64 computations the loops of render do not look into:   *)
(* a ray is named by the pixel it goes through, and a world is any function *)
(* from rays to colors.                                                     *)

\* Camera::ray_for_pixel
ray_for_pixel(camera, px, py) == [px |-> px, py |-> py]

CameraRays == [px : 0..(MaxSide - 1), py : 0..(MaxSide - 1)]

\* World::color_at, for a world given as the color along each ray
color_at(world, ray) == world[ray]

\* The body of the loops of render as it would be if it wrote the rows from
\* right to left
render_body_mirrored(image, camera, world, x, y) ==
    LET ray == ray_for_pixel(camera, x, y)
        color == color_at(world, ray)
    IN  write_pixel(image, camera.hsize - 1 - x, y, color)

\* The body of the loops of render, for the pixel (x, y)
render_body(image, camera, world, x, y) ==
    LET ray == ray_for_pixel(camera, x, y)
        color == color_at(world, ray)
    IN  write_pixel(image, x, y, color)

RenderInit ==
    /\ arg \in [camera : [hsize : 0..MaxSide, vsize : 0..MaxSide],
                world : [CameraRays -> Colors]]
    /\ render = [pc |-> "new", x |-> 0, y |-> 0, written |-> <<>>]
    /\ canvas = Unused
    /\ res = Unused
    /\ heap = Unused /\ alive = Unused /\ ops = Unused /\ last = Unused
    /\ stack = Unused /\ calls = Unused

\* let mut image = Canvas::new(self.hsize, self.vsize)
RenderNew ==
    /\ render.pc = "new"
    /\ canvas' = Canvas_new(arg.camera.hsize, arg.camera.vsize)
    /\ render' = [render EXCEPT !.pc = "rows"]
    /\ UNCHANGED <<fnVars, treeVars, colorVars>>

\* for y in 0..self.vsize: the next row, or the end of the loop
RenderRow ==
    /\ render.pc = "rows"
    /\ render' = IF render.y < arg.camera.vsize
                 THEN [render EXCEPT !.pc = "columns", !.x = 0]
                 ELSE [render EXCEPT !.pc = "returned"]
    /\ UNCHANGED <<canvas, fnVars, treeVars, colorVars>>

\* for x in 0..self.hsize: the body for the next pixel of the row, or the
\* end of the row
RenderPixel ==
    /\ render.pc = "columns"
    /\ IF render.x < arg.camera.hsize
       THEN /\ canvas' = render_body(canvas, arg.camera, arg.world,
                                      render.x, render.y)
            /\ render' = [render EXCEPT
                            !.x = @ + 1,
                            !.written = Append(@, <<render.x, render.y>>)]
       ELSE /\ render' = [render EXCEPT !.pc = "rows", !.y = @ + 1]
            /\ UNCHANGED canvas
    /\ UNCHANGED <<fnVars, treeVars, colorVars>>

RenderNext == RenderNew \/ RenderRow \/ RenderPixel

SpecRender == RenderInit /\ [][RenderNext]_vars

\* C18: render returns a canvas of hsize by vsize whose pixel (x, y) holds
\* color_at of the ray for pixel (x, y); the pixels are written once each, row
\* by row from the top-left one on, and no write falls outside the canvas
C18_Render ==
    /\ render.pc = "returned" =>
          /\ canvas.width = arg.camera.hsize /\ canvas.height = arg.camera.vsize
          /\ Len(canvas.pixels) = arg.camera.vsize
          /\ \A y \in 0..(arg.camera.vsize - 1) :
                /\ Len(canvas.pixels[y + 1]) = arg.camera.hsize
                /\ \A x \in 0..(arg.camera.hsize - 1) :
                      pixel_at(canvas, x, y) =
                          color_at(arg.world, ray_for_pixel(arg.camera, x, y))
          /\ Len(render.written) = arg.camera.hsize * arg.camera.vsize
    /\ render.pc # "new" =>
          \A i \in 1..Len(render.written) :
              /\ render.written[i] = <<(i - 1) % arg.camera.hsize,
                                       (i - 1) \div arg.camera.hsize>>
              /\ render.written[i][1] < canvas.width
              /\ render.written[i][2] < canvas.height

\* C18 happens: render has returned an image wider than high in which the
\* world shows two colors
C18_Witness ==
    /\ render.pc = "returned"
    /\ arg.camera.hsize = 2 /\ arg.camera.vsize = 1
    /\ render.written = <<<<0, 0>>, <<1, 0>>>>
    /\ pixel_at(canvas, 0, 0) = "red"
    /\ pixel_at(canvas, 1, 0) = "black"

-----------------------------------------------------------------------------
(* scene::materials::MaterialBuilder.  The f64 fields are in tenths: 10 is  *)
(* 1.0.  The color and the pattern play no part in build and are left out.  *)

\* MaterialBuilder::new
MaterialBuilder_new ==
    [ambient |-> 1, diffuse |-> 9, specular |-> 9, shininess |-> 2000,
     reflectivity |-> 0, transparency |-> 0, refractive_index |-> 10]

\* MaterialBuilder::build: the Material, or the panic
build(self) ==
    IF self.ambient < 0 \/ self.diffuse < 0 \/ self.specular < 0 \/ self.shininess < 0
    THEN [panicked |-> TRUE]
    ELSE [panicked |-> FALSE, material |-> self]

\* The values handed to the setters: -1.0, 0.0, 0.5 and 2.0
MaterialValues == {-10, 0, 5, 20}

MaterialInit ==
    /\ arg = MaterialBuilder_new
    /\ res = [done |-> FALSE]
    /\ heap = Unused /\ alive = Unused /\ ops = Unused /\ last = Unused
    /\ stack = Unused /\ calls = Unused
    /\ canvas = Unused /\ render = Unused

\* A setter of the builder
SetField(field, v) ==
    /\ ~res.done
    /\ arg' = [arg EXCEPT ![field] = v]
    /\ UNCHANGED <<res, treeVars, colorVars, renderVars>>

Builder_ambient(v) == SetField("ambient", v)

Builder_diffuse(v) == SetField("diffuse", v)

Builder_specular(v) == SetField("specular", v)

Builder_shininess(v) == SetField("shininess", v)

Builder_reflectivity(v) == SetField("reflectivity", v)

Builder_transparency(v) == SetField("transparency", v)

Builder_refractive_index(v) == SetField("refractive_index", v)

\* builder.build()
Builder_build ==
    /\ ~res.done
    /\ res' = [done |-> TRUE] @@ build(arg)
    /\ UNCHANGED <<arg, treeVars, colorVars, renderVars>>

MaterialNext ==
    \/ \E v \in MaterialValues : Builder_ambient(v)
    \/ \E v \in MaterialValues : Builder_diffuse(v)
    \/ \E v \in MaterialValues : Builder_specular(v)
    \/ \E v \in MaterialValues : Builder_shininess(v)
    \/ \E v \in MaterialValues : Builder_reflectivity(v)
    \/ \E v \in MaterialValues : Builder_transparency(v)
    \/ \E v \in MaterialValues : Builder_refractive_index(v)
    \/ Builder_build

SpecMaterial == MaterialInit /\ [][MaterialNext]_vars

\* C19: a Material that build returns has ambient, diffuse, specular and
\* shininess >= 0, reflectivity and transparency in [0, 1] and
\* refractive_index > 0
C19_BuiltMaterialInRange ==
    (res.done /\ ~res.panicked) =>
        /\ res.material.ambient >= 0 /\ res.material.diffuse >= 0
        /\ res.material.specular >= 0 /\ res.material.shininess >= 0
        /\ res.material.reflectivity >= 0 /\ res.material.reflectivity <= 10
        /\ res.material.transparency >= 0 /\ res.material.transparency <= 10
        /\ res.material.refractive_index > 0

\* The part of C19 the code keeps: the four fields build looks at
C19_CheckedFieldsInRange ==
    (res.done /\ ~res.panicked) =>
        /\ res.material.ambient >= 0 /\ res.material.diffuse >= 0
        /\ res.material.specular >= 0 /\ res.material.shininess >= 0

-----------------------------------------------------------------------------
(* World::is_shadowed as a function of the world and the point.  A world is *)
(* [objects |-> list of Object, light_source |-> None or Some(position)].   *)

\* Tuple::magnitude, of the vectors along an axis that the model meets
magnitude(v) == sqrt(dot(v, v))

\* Tuple::normalize, for a vector that is not zero
normalize(v) == LET m == magnitude(v) IN <<v[1] \div m, v[2] \div m, v[3] \div m>>

\* is_shadowed as it would be if a hit at the light itself were a shadow
is_shadowed_up_to_the_light(w, point) ==
    IF ~w.light_source.some THEN FALSE
    ELSE LET v == [i \in 1..3 |-> w.light_source.value[i] - point[i]]
             distance == magnitude(v)
         IN  IF distance = 0 THEN FALSE
             ELSE LET ray == [origin |-> point, direction |-> normalize(v)]
                      h == hit(World_intersect(w, ray))
                  IN  IF h.some THEN h.value.t <= distance ELSE FALSE

\* World::is_shadowed.  With the point at the light, v is the zero vector and
\* normalize divides 0.0 by 0.0 on every axis: every t that intersect gives
\* is then NaN, and hit, which looks for t >= 0.0, finds none.
is_shadowed(w, point) ==
    IF ~w.light_source.some THEN FALSE
    ELSE LET v == [i \in 1..3 |-> w.light_source.value[i] - point[i]]
             distance == magnitude(v)
         IN  IF distance = 0 THEN FALSE
             ELSE LET ray == [origin |-> point, direction |-> normalize(v)]
                      h == hit(World_intersect(w, ray))
                  IN  IF h.some THEN h.value.t < distance ELSE FALSE

\* Points and lights on lines parallel to the x axis: through the centres of
\* the spheres and past them
ShadowPoints == {<<x, y, 0>> : x \in {-3, 0, 2}, y \in {0, 2}}

\* The objects of the worlds: spheres, an empty group, a moved group of one
\* sphere and a mirrored group of two
ShadowObjects ==
    {Leaf(t) : t \in {identity, translate(1), translate(3)}}
    \cup {Grp(identity, <<>>), Grp(translate(3), <<Leaf(identity)>>),
          Grp(scale(-1), <<Leaf(translate(1)), Leaf(identity)>>)}

LightsFor(point) == {None} \cup {Some(<<x, point[2], 0>>) : x \in {-1, 2, 5}}

ShadowInit ==
    /\ arg \in {[fn |-> "is_shadowed", point |-> p,
                 world |-> [objects |-> l, light_source |-> ls]] :
                    p \in ShadowPoints, l \in ListsOver(ShadowObjects, MaxObjects),
                    ls \in UNION {LightsFor(q) : q \in ShadowPoints}}
    /\ arg.world.light_source \in LightsFor(arg.point)
    /\ res = [done |-> FALSE]
    /\ heap = Unused /\ alive = Unused /\ ops = Unused /\ last = Unused
    /\ stack = Unused /\ calls = Unused
    /\ canvas = Unused /\ render = Unused

\* arg.world.is_shadowed(arg.point)
ApplyIsShadowed ==
    /\ ~res.done
    /\ res' = [done |-> TRUE, value |-> is_shadowed(arg.world, arg.point)]
    /\ UNCHANGED <<arg, treeVars, colorVars, renderVars>>

ShadowNext == ApplyIsShadowed

SpecShadow == ShadowInit /\ [][ShadowNext]_vars

\* The distance from the point to the light, which is on the same line
DistanceToLight == 
    LET d == arg.world.light_source.value[1] - arg.point[1]
    IN  IF d < 0 THEN 0 - d ELSE d

\* The t values of the world's intersections along the ray from the point
\* toward the light that are not behind the point
TowardLight ==
    LET d == arg.world.light_source.value[1] - arg.point[1]
        ray == [origin |-> arg.point,
                direction |-> <<IF d < 0 THEN -1 ELSE 1, 0, 0>>]
        xs == World_intersect(arg.world, ray)
    IN  {xs[i].t : i \in {j \in DOMAIN xs : xs[j].t >= 0}}

\* C20: is_shadowed(p) is true exactly when the intersections of the world
\* along the ray from p toward the light have a hit, the lowest t >= 0, and
\* that t is below the distance from p to the light; objects behind the point
\* or at or beyond the light do not shadow it
C20_IsShadowed ==
    (res.done /\ arg.world.light_source.some /\ DistanceToLight > 0) =>
        /\ res.value <=>
              /\ TowardLight # {}
              /\ \E t \in TowardLight :
                    /\ \A u \in TowardLight : t <= u
                    /\ t < DistanceToLight
        /\ (\A t \in TowardLight : t >= DistanceToLight) => ~res.value

\* Without a light source no point is shadowed
NotShadowedWithoutLight ==
    (res.done /\ ~arg.world.light_source.some) => ~res.value

\* C20 happens: the point is not shadowed although the world has a sphere
\* behind the point and a sphere whose surface is exactly at the light
C20_Witness ==
    /\ res.done /\ arg.world.light_source.some
    /\ ~res.value
    /\ DistanceToLight \in TowardLight
    /\ \E i \in DOMAIN arg.world.objects :
          LET d == arg.world.light_source.value[1] - arg.point[1]
              ts == intersect(arg.world.objects[i],
                              [origin |-> arg.point,
                               direction |-> <<IF d < 0 THEN -1 ELSE 1, 0, 0>>])
          IN  ts # <<>> /\ \A j \in DOMAIN ts : ts[j] < 0

\* C20 happens as well: a sphere between the point and the light shadows it
C20_Shadowed ==
    /\ res.done /\ arg.world.light_source.some
    /\ res.value

-----------------------------------------------------------------------------
(* The sum World::shade_hit_internal returns.  A Color is one channel, and  *)
(* the f64s are in quarters: 4 is 1.0.  The eye and normal vectors are read *)
(* through their dot product cos_i, which is 0.0 or 1.0.                    *)

\* a * b, of two numbers in quarters
MulQ(a, b) == (a * b) \div 4

\* n_ratio.powi(2) * (1.0 - cos.powi(2))
Sin2T(comps) ==
    (4 * comps.n1 * comps.n1 * (16 - comps.cos_i * comps.cos_i))
        \div (16 * comps.n2 * comps.n2)

\* Computations::schlick
schlick(comps) ==
    LET total == comps.n1 > comps.n2 /\ Sin2T(comps) > 4
        cos == IF comps.n1 > comps.n2
               THEN 2 * sqrt(4 - Sin2T(comps))
               ELSE comps.cos_i
        r0 == (4 * (comps.n1 - comps.n2) * (comps.n1 - comps.n2))
                  \div ((comps.n1 + comps.n2) * (comps.n1 + comps.n2))
        powi5 == ((4 - cos) * (4 - cos) * (4 - cos) * (4 - cos) * (4 - cos))
                     \div 256
    IN  IF total THEN 4 ELSE r0 + MulQ(4 - r0, powi5)

\* The color reflected_color_internal returns when color_at_internal gives
\* color for the reflected ray (black when remaining is 0 or nothing is hit)
reflected_color(comps, color) ==
    IF comps.reflectivity = 0 THEN 0 ELSE MulQ(color, comps.reflectivity)

\* The color refracted_color_internal returns, likewise
refracted_color(comps, color) ==
    IF comps.transparency = 0 THEN 0
    ELSE IF Sin2T(comps) > 4 THEN 0
    ELSE MulQ(color, comps.transparency)

\* shade_hit_internal as it would be if one of the two sufficed for Schlick
shade_hit_internal_weighting_either(light_source, comps, surface, reflected, refracted) ==
    IF ~light_source THEN 0
    ELSE IF comps.reflectivity > 0 \/ comps.transparency > 0
    THEN surface + MulQ(reflected, schlick(comps))
                 + MulQ(refracted, 4 - schlick(comps))
    ELSE surface + reflected + refracted

\* shade_hit_internal, given the color lighting returns and the two colors
shade_hit_internal(light_source, comps, surface, reflected, refracted) ==
    IF ~light_source THEN 0
    ELSE IF comps.reflectivity > 0 /\ comps.transparency > 0
    THEN LET reflectance == schlick(comps)
         IN  surface + MulQ(reflected, reflectance)
                     + MulQ(refracted, 4 - reflectance)
    ELSE surface + reflected + refracted

\* Hits: reflectivity and transparency -1.0, 0.0, 0.5 or 1.0, the ray from
\* air into glass, from glass into air or between equal media, and grazing
\* or head on
ShadeComps ==
    {[reflectivity |-> r, transparency |-> t, n1 |-> n[1], n2 |-> n[2],
      cos_i |-> c] :
        r \in {-4, 0, 2, 4}, t \in {-4, 0, 2, 4},
        n \in {<<4, 4>>, <<4, 12>>, <<12, 4>>}, c \in {0, 4}}

\* Colors: 0.0, 4.0 and 8.0
ShadeColors == {0, 16, 32}

ShadeInit ==
    /\ arg \in [light_source : BOOLEAN, comps : ShadeComps,
                surface : ShadeColors, reflect_ray : ShadeColors,
                refract_ray : ShadeColors]
    /\ res = [done |-> FALSE]
    /\ heap = Unused /\ alive = Unused /\ ops = Unused /\ last = Unused
    /\ stack = Unused /\ calls = Unused
    /\ canvas = Unused /\ render = Unused

\* world.shade_hit(comps)
ApplyShadeHit ==
    /\ ~res.done
    /\ res' = [done |-> TRUE,
               reflected |-> reflected_color(arg.comps, arg.reflect_ray),
               refracted |-> refracted_color(arg.comps, arg.refract_ray),
               value |-> shade_hit_internal(
                             arg.light_source, arg.comps, arg.surface,
                             reflected_color(arg.comps, arg.reflect_ray),
                             refracted_color(arg.comps, arg.refract_ray))]
    /\ UNCHANGED <<arg, treeVars, colorVars, renderVars>>

ShadeNext == ApplyShadeHit

SpecShade == ShadeInit /\ [][ShadeNext]_vars

\* C21: in a world with a light, shade_hit returns surface + reflected * r +
\* refracted * (1 - r) with r = schlick() when the material of the hit has
\* reflectivity > 0 and transparency > 0, and surface + reflected + refracted
\* in every other case
C21_ShadeHit ==
    (res.done /\ arg.light_source) =>
        LET r == schlick(arg.comps)
        IN  IF arg.comps.reflectivity > 0 /\ arg.comps.transparency > 0
            THEN res.value = arg.surface + (res.reflected * r) \div 4
                                 + (res.refracted * (4 - r)) \div 4
            ELSE res.value = arg.surface + res.reflected + res.refracted

\* C21 happens: a hit from air into glass, head on, on a material that
\* reflects and lets light through, where the weighted sum is not the plain one
C21_Witness ==
    /\ res.done /\ arg.light_source
    /\ arg.comps.reflectivity > 0 /\ arg.comps.transparency > 0
    /\ schlick(arg.comps) = 1
    /\ res.reflected > 0 /\ res.refracted > 0
    /\ res.value # arg.surface + res.reflected + res.refracted

-----------------------------------------------------------------------------
(* The Computations World::color_at_internal shades, as a function of the   *)
(* world and the ray                                                        *)

\* color_at_internal up to shade_hit_internal: the intersections of the
\* world, their hit and hit.prepare_computations(ray)
color_at_computations(w, ray) ==
    LET intersections == World_intersect(w, ray)
        h == hit(intersections)
    IN  IF h.some
        THEN Some(prepare_computations(w.objects, h.value))
        ELSE None

\* Glass spheres of radius 1 on the x axis with refractive index 1.5 or 2.0
GlassSpheres ==
    {[Leaf(t) EXCEPT !.material.transparency = 1,
                     !.material.refractive_index = n] :
        t \in {identity, translate(1), translate(3)}, n \in {15, 20}}

\* Rays along the x axis that start before, inside and behind the spheres
GlassRays ==
    {[origin |-> <<x, 0, 0>>, direction |-> <<d, 0, 0>>] :
        x \in {-3, 0, 1, 3, 5}, d \in {1, -1}}

GlassInit ==
    /\ arg \in [world : [objects : ListsOver(GlassSpheres, MaxObjects)],
                ray : GlassRays]
    /\ res = [done |-> FALSE]
    /\ heap = Unused /\ alive = Unused /\ ops = Unused /\ last = Unused
    /\ stack = Unused /\ calls = Unused
    /\ canvas = Unused /\ render = Unused

\* The Computations of arg.world.color_at(arg.ray)
ApplyColorAtComputations ==
    /\ ~res.done
    /\ res' = [done |-> TRUE,
               intersections |-> World_intersect(arg.world, arg.ray),
               value |-> color_at_computations(arg.world, arg.ray)]
    /\ UNCHANGED <<arg, treeVars, colorVars, renderVars>>

GlassNext == ApplyColorAtComputations

SpecGlass == GlassInit /\ [][GlassNext]_vars

\* C23: the Computations color_at shades have the n1 and n2 that replaying
\* the sorted list of the world's intersections up to the hit gives: at the
\* exit of an object the ray started inside of, n1 is the refractive index
\* of that object and n2 the one of the medium outside it
C23_ComputationsReplayWorld ==
    (res.done /\ res.value.some) =>
        LET h == hit(res.intersections).value
            replayed == prepare_computations_for_intersections(
                            arg.world.objects, h, res.intersections)
        IN  /\ res.value.value.n1 = replayed.n1
            /\ res.value.value.n2 = replayed.n2

\* What the code gives instead: n1 is 1.0 and n2 the refractive index of the
\* object of the hit, whatever the ray is inside of
C23_HitReplayedAlone ==
    (res.done /\ res.value.some) =>
        /\ res.value.value.n1 = 10
        /\ res.value.value.n2 =
               Deref(arg.world.objects,
                     res.value.value.object).material.refractive_index

-----------------------------------------------------------------------------
(* World::intersect and World::color_at called on one world for several     *)
(* rays, in any order and more than once.  Both take &self: what a call     *)
(* leaves behind is the world it was given.                                 *)

\* The color color_at returns, as far as it tells hits apart: black without
\* a hit or a light, the panic for a hit on a group, else a color that
\* stands for the object and the t of the hit
color_at_value(w, ray) ==
    LET h == hit(World_intersect(w, ray))
    IN  IF ~h.some
        THEN [kind |-> "black", object |-> <<>>, t |-> 0]
        ELSE IF Deref(w.objects, h.value.object).kind = "group"
        THEN [kind |-> "panic", object |-> h.value.object, t |-> h.value.t]
        ELSE IF ~w.light_source.some
        THEN [kind |-> "black", object |-> <<>>, t |-> 0]
        ELSE [kind |-> "shaded", object |-> h.value.object, t |-> h.value.t]

\* color_at as it would be if it took the light out of the world it shades
World_color_at_consuming_light(w, ray) ==
    [world |-> [w EXCEPT !.light_source = None],
     value |-> color_at_value(w, ray)]

\* color_at(&self, ray): the world after the call, and the color
World_color_at(w, ray) == [world |-> w, value |-> color_at_value(w, ray)]

\* Rays along the x axis through the centres and tangent to the spheres
PureRays ==
    {[origin |-> <<-3, y, 0>>, direction |-> <<1, 0, 0>>] : y \in {0, 1}}
    \cup {[origin |-> <<0, 0, 0>>, direction |-> <<-1, 0, 0>>]}

\* The objects of the worlds: two spheres, an empty group and a moved group
\* of one sphere
PureObjects ==
    {Leaf(identity), Leaf(translate(3)), Grp(identity, <<>>),
     Grp(translate(3), <<Leaf(identity)>>)}

NotCalled == [called |-> FALSE]

PureInit ==
    /\ arg \in [world : [objects : ListsOver(PureObjects, MaxObjects),
                         light_source : {None, Some(<<-5, 0, 0>>)}]]
    /\ res = [colors |-> [r \in PureRays |-> NotCalled],
              intersections |-> [r \in PureRays |-> NotCalled]]
    /\ heap = Unused /\ alive = Unused /\ ops = Unused /\ last = Unused
    /\ stack = Unused /\ calls = Unused
    /\ canvas = Unused /\ render = Unused

\* arg.world.color_at(ray)
CallColorAt(ray) ==
    LET call == World_color_at(arg.world, ray)
    IN  /\ arg' = [arg EXCEPT !.world = call.world]
        /\ res' = [res EXCEPT !.colors[ray] =
                                  [called |-> TRUE, value |-> call.value]]
        /\ UNCHANGED <<treeVars, colorVars, renderVars>>

\* arg.world.intersect(ray)
CallIntersect(ray) ==
    /\ res' = [res EXCEPT !.intersections[ray] =
                   [called |-> TRUE, value |-> World_intersect(arg.world, ray)]]
    /\ UNCHANGED <<arg, treeVars, colorVars, renderVars>>

PureNext ==
    \/ \E ray \in PureRays : CallColorAt(ray)
    \/ \E ray \in PureRays : CallIntersect(ray)

SpecPure == PureInit /\ [][PureNext]_vars

-----------------------------------------------------------------------------
(* The test of the bounds of a group against the hits of its children       *)

\* A cylinder as a scene places it
Cyl(t, minimum, maximum, closed) ==
    update_transforms(cylinder(minimum, maximum, closed), t, t)

RECURSIVE intersect_every_child(_, _)
RECURSIVE ExtendEveryChild(_, _)

\* The loop of Group::local_intersect with every group below it taken
\* without the test of its bounds
ExtendEveryChild(children, ray) ==
    IF children = <<>> THEN <<>>
    ELSE intersect_every_child(Head(children), ray)
             \o ExtendEveryChild(Tail(children), ray)

\* Object::intersect where no group tests its bounds: the sorted hits of
\* all the children
intersect_every_child(o, ray) ==
    IF o.kind = "group"
    THEN sort_f64(ExtendEveryChild(o.children,
                                   transform(ray, inverse(o.transformation))))
    ELSE intersect(o, ray)

\* Group::local_intersect where no group tests its bounds
Group_local_intersect_every_child(g, ray) ==
    sort_f64(ExtendEveryChild(g.children, ray))

\* Groups of cylinders: one cut at 0 and 1, one unbounded, one closed, one
\* moved along x, and one beside an empty group
CylinderGroups ==
    {Grp(t, kids) :
        t \in {identity, translate(1)},
        kids \in {<<Cyl(identity, Fin(0), Fin(1), FALSE)>>,
                  <<Cyl(identity, NEG_INFINITY, INFINITY, FALSE)>>,
                  <<Cyl(identity, Fin(1), Fin(2), TRUE)>>,
                  <<Cyl(translate(2), Fin(-1), Fin(1), TRUE), Grp(identity, <<>>)>>}}

\* Groups with spheres: a sphere beside a cylinder, a sphere in a group in
\* the group, an empty group, a group of an empty group
SphereGroups ==
    {Grp(identity, <<Leaf(translate(-2)), Cyl(identity, Fin(0), Fin(1), TRUE)>>),
     Grp(translate(1), <<Grp(scale(-1), <<Leaf(translate(1))>>)>>),
     Grp(identity, <<>>),
     Grp(identity, <<Grp(identity, <<>>)>>)}

\* Rays along the axes, from outside, from inside and from the faces of
\* the boxes
WholeRays ==
    {[origin |-> <<x, y, 0>>, direction |-> d] :
        x \in {-3, -1, 0, 1}, y \in {-1, 0, 1, 2},
        d \in {<<1, 0, 0>>, <<-1, 0, 0>>, <<0, 1, 0>>, <<0, -1, 0>>, <<0, 0, 1>>}}

\* Rays along x that are a hair off: the origin 1e-12 above or below a
\* whole y, the direction 1e-11 up or down
HairRays ==
    {[origin |-> <<x, y, 0>>, direction |-> <<d, 0, 0>>,
      origin_fine |-> <<0, e, 0>>, direction_fine |-> <<0, f, 0>>] :
        x \in {-3, 0}, y \in {0, 1}, d \in {1, -1},
        e \in {-1, 0, 1}, f \in {-10, 0, 10}}

PrecheckInit ==
    /\ arg \in [fn : {"local_intersect", "intersect_with_object"},
                g : CylinderGroups \cup SphereGroups, ray : WholeRays]
               \cup [fn : {"local_intersect", "intersect_with_object"},
                     g : CylinderGroups, ray : HairRays]
    /\ res = [done |-> FALSE]
    /\ heap = Unused /\ alive = Unused /\ ops = Unused /\ last = Unused
    /\ stack = Unused /\ calls = Unused
    /\ canvas = Unused /\ render = Unused

\* arg.g.local_intersect(arg.ray), the group as Object::Group holds it
ApplyGroupLocalIntersect ==
    /\ ~res.done /\ arg.fn = "local_intersect"
    /\ res' = [done |-> TRUE, value |-> Group_local_intersect(arg.g, arg.ray)]
    /\ UNCHANGED <<arg, treeVars, colorVars, renderVars>>

\* arg.g.intersect_with_object(arg.ray), the t of what it returns
ApplyGroupIntersectWithObject ==
    /\ ~res.done /\ arg.fn = "intersect_with_object"
    /\ res' = [done |-> TRUE,
               value |-> LET xs == intersect_with_object(arg.g, <<1>>, arg.ray)
                         IN  [i \in DOMAIN xs |-> xs[i].t]]
    /\ UNCHANGED <<arg, treeVars, colorVars, renderVars>>

PrecheckNext == ApplyGroupLocalIntersect \/ ApplyGroupIntersectWithObject

SpecPrecheck == PrecheckInit /\ [][PrecheckNext]_vars

\* What the children return together when no bounds are tested
EveryChildHits ==
    IF arg.fn = "local_intersect"
    THEN Group_local_intersect_every_child(arg.g, arg.ray)
    ELSE intersect_every_child(arg.g, arg.ray)

\* C27: the test of the bounds of a group drops no hit: local_intersect and
\* the group branch of intersect_with_object return the t values that the
\* children return together, sorted, when no bounds are tested
C27_PrecheckKeepsHits == res.done => res.value = EveryChildHits

\* The same for the rays whose direction has no component below 1e-10 other
\* than 0: these lose no hit
C27_ParallelRaysKeepHits ==
    (res.done /\ (HasFine(arg.ray) => arg.ray.direction_fine = <<0, 0, 0>>))
        => res.value = EveryChildHits

\* The rays above meet children, and the bounds turn some of them away
C27_ParallelRaysPruned ==
    /\ res.done /\ ~HasFine(arg.ray)
    /\ arg.g.children # <<>>
    /\ res.value = <<>>
    /\ ~intersects(Group_bounds(arg.g), transform(arg.ray, inverse(arg.g.transformation)))

-----------------------------------------------------------------------------
(* Object::intersect and Object::intersect_with_object of a leaf            *)

\* A cone as a scene places it
Con(t, minimum, maximum, closed) ==
    [cone(minimum, maximum, closed) EXCEPT !.transformation = t,
                                           !.world_transformation = t]

\* Cylinders: unbounded, cut and open, cut and closed around and above the
\* origin
LeafCylinders ==
    {Cyl(t, NEG_INFINITY, INFINITY, FALSE) : t \in {identity, translate(1)}}
    \cup {Cyl(t, Fin(lo), Fin(lo + h), closed) :
             t \in {identity, translate(1)}, lo \in {-1, 1}, h \in {1, 2},
             closed \in BOOLEAN}

\* Cones: unbounded, cut and open, cut and closed across and above the apex
LeafCones ==
    {Con(identity, NEG_INFINITY, INFINITY, FALSE)}
    \cup {Con(identity, Fin(lo), Fin(hi), closed) :
             lo \in {-2, 1}, hi \in {2, 3}, closed \in BOOLEAN}

\* Rays in the plane z = 0 along the axes
AxisRays ==
    {[origin |-> <<x, y, 0>>, direction |-> d] :
        x \in -3..3, y \in -3..4,
        d \in {<<1, 0, 0>>, <<-1, 0, 0>>, <<0, 1, 0>>, <<0, -1, 0>>}}

\* Rays in the plane z = 0 along the diagonals
DiagonalRays ==
    {[origin |-> <<x, y, 0>>, direction |-> <<dx, dy, 0>>] :
        x \in -3..3, y \in -3..4, dx \in {1, -1}, dy \in {1, -1}}

\* The diagonal rays whose one hit on a cone is at a whole t
ConeDiagonalRays ==
    {r \in DiagonalRays :
        LET b == 2 * r.origin[1] * r.direction[1] - 2 * r.origin[2] * r.direction[2]
            c == r.origin[1] * r.origin[1] - r.origin[2] * r.origin[2]
        IN  b = 0 \/ (b > 0 /\ c % (2 * b) = 0) \/ (b < 0 /\ c % (0 - 2 * b) = 0)}

LeafInit ==
    /\ arg \in [o : {Leaf(identity), Leaf(translate(1))}, ray : AxisRays]
               \cup [o : LeafCylinders, ray : AxisRays \cup DiagonalRays]
               \cup [o : LeafCones, ray : AxisRays \cup ConeDiagonalRays]
    /\ res = [done |-> FALSE]
    /\ heap = Unused /\ alive = Unused /\ ops = Unused /\ last = Unused
    /\ stack = Unused /\ calls = Unused
    /\ canvas = Unused /\ render = Unused

\* Intersection::hit on arg.o.intersect(arg.ray), each t with its object
ApplyLeafIntersect ==
    /\ ~res.done
    /\ LET ts == intersect(arg.o, arg.ray)
           xs == [i \in DOMAIN ts |-> [t |-> ts[i], object |-> <<1>>]]
       IN  res' = [done |-> TRUE, fn |-> "intersect", value |-> xs, hit |-> hit(xs)]
    /\ UNCHANGED <<arg, treeVars, colorVars, renderVars>>

\* Intersection::hit on arg.o.intersect_with_object(arg.ray)
ApplyLeafIntersectWithObject ==
    /\ ~res.done
    /\ LET xs == intersect_with_object(arg.o, <<1>>, arg.ray)
       IN  res' = [done |-> TRUE, fn |-> "intersect_with_object", value |-> xs,
                   hit |-> hit(xs)]
    /\ UNCHANGED <<arg, treeVars, colorVars, renderVars>>

LeafNext == ApplyLeafIntersect \/ ApplyLeafIntersectWithObject

SpecLeaf == LeafInit /\ [][LeafNext]_vars

\* The list is ascending by t and hit has returned its lowest t >= 0
AscendingWithNearestHit ==
    /\ IsSortedByT(res.value)
    /\ IsLowestNonNegative(res.hit, res.value)

\* C28: intersect and intersect_with_object of a leaf return their t
\* ascending, and hit on the list returns the nearest t >= 0
C28_LeafHitsAscending == res.done => AscendingWithNearestHit

\* The same for the leaves without caps: spheres and open cylinders and
\* cones return their t ascending
C28_OpenLeafHitsAscending ==
    (res.done /\ (arg.o.kind = "sphere" \/ ~arg.o.closed))
        => AscendingWithNearestHit

\* Open leaves are hit twice, and closed ones on a cap
C28_LeavesHit ==
    /\ res.done /\ Len(res.value) = 2
    /\ res.value[1].t < res.value[2].t
    /\ res.value[1].t >= 0
    /\ arg.o.kind = "cone"

-----------------------------------------------------------------------------
(* The normals at the points intersect_caps accepts                          *)

\* intersect_caps of a cylinder or of a cone on an empty list
intersect_caps(o, ray) ==
    IF o.kind = "cylinder" THEN Cylinder_intersect_caps(o, ray, <<>>)
    ELSE Cone_intersect_caps(o, ray, <<>>)

\* local_normal_at of a cylinder or of a cone
local_normal_at(o, point) ==
    IF o.kind = "cylinder" THEN Cylinder_local_normal_at(o, point)
    ELSE Cone_local_normal_at(o, point)

\* Closed cylinders and cones cut at whole y, in their own space
CappedShapes ==
    {o \in LeafCylinders \cup LeafCones :
        o.closed /\ o.transformation = identity}

\* Rays that are not level: intersect_caps returns at once for the others
CapRays == {r \in AxisRays \cup DiagonalRays : r.direction[2] # 0}

CapsInit ==
    /\ arg \in [o : CappedShapes, ray : CapRays]
    /\ res = [done |-> FALSE]
    /\ heap = Unused /\ alive = Unused /\ ops = Unused /\ last = Unused
    /\ stack = Unused /\ calls = Unused
    /\ canvas = Unused /\ render = Unused

\* arg.o.intersect_caps(arg.ray, &mut xs), then local_normal_at at the
\* position of each t it has pushed
ApplyCapNormals ==
    /\ ~res.done
    /\ LET ts == intersect_caps(arg.o, arg.ray)
       IN  res' = [done |-> TRUE,
                   value |-> [i \in DOMAIN ts |->
                       [t |-> ts[i],
                        point |-> position(arg.ray, ts[i]),
                        normal |-> local_normal_at(arg.o, position(arg.ray, ts[i]))]]]
    /\ UNCHANGED <<arg, treeVars, colorVars, renderVars>>

CapsNext == ApplyCapNormals

SpecCaps == CapsInit /\ [][CapsNext]_vars

\* The normal of the cap the point h.point lies on
FlatCapNormal(h) ==
    /\ Fin(h.point[2]) = arg.o.minimum => h.normal = <<0, -1, 0>>
    /\ Fin(h.point[2]) = arg.o.maximum => h.normal = <<0, 1, 0>>

\* C29: every point intersect_caps accepts gets the flat normal of its
\* cap: (0,-1,0) on the minimum cap, (0,1,0) on the maximum cap
C29_CapNormals ==
    res.done => \A i \in DOMAIN res.value : FlatCapNormal(res.value[i])

\* The same for the accepted points less than 1 away from the axis
C29_InnerCapNormals ==
    res.done =>
        \A i \in DOMAIN res.value :
            LET p == res.value[i].point
            IN  p[1] * p[1] + p[3] * p[3] < 1 => FlatCapNormal(res.value[i])

\* Both caps have been hit at such points
C29_InnerCapsHit ==
    /\ res.done /\ Len(res.value) = 2
    /\ res.value[1].normal = <<0, -1, 0>>
    /\ res.value[2].normal = <<0, 1, 0>>

-----------------------------------------------------------------------------
(* scene::materials::Material and its ==                                     *)

\* impl PartialEq for Material; a Color is one number here, its == being
\* float_equal on each channel, and a pattern compares by its derived ==
Material_eq(self, other) ==
    /\ float_equal(self.color, other.color)
    /\ float_equal(self.shininess, other.shininess)
    /\ float_equal(self.ambient, other.ambient)
    /\ float_equal(self.diffuse, other.diffuse)
    /\ float_equal(self.specular, other.specular)
    /\ self.pattern = other.pattern

\* Materials, their numbers in tenths: the default and those that differ
\* from it in one field or in several
Materials ==
    [color : {0, 10}, ambient : {1, 2}, diffuse : {9}, specular : {9},
     shininess : {2000}, reflectivity : {0, 5}, transparency : {0, 5},
     refractive_index : {10, 15}, pattern : {"None", "Some(stripe)"}]

MaterialEqInit ==
    /\ arg \in [self : Materials, other : Materials]
    /\ res = [done |-> FALSE]
    /\ heap = Unused /\ alive = Unused /\ ops = Unused /\ last = Unused
    /\ stack = Unused /\ calls = Unused
    /\ canvas = Unused /\ render = Unused

\* arg.self == arg.other
ApplyMaterialEq ==
    /\ ~res.done
    /\ res' = [done |-> TRUE, value |-> Material_eq(arg.self, arg.other)]
    /\ UNCHANGED <<arg, treeVars, colorVars, renderVars>>

MaterialEqNext == ApplyMaterialEq

SpecMaterialEq == MaterialEqInit /\ [][MaterialEqNext]_vars

\* C30: == is true only for materials that agree on every field that
\* affects rendering: a difference in reflectivity, transparency or
\* refractive_index makes them unequal
C30_EqualMaterialsAgree ==
    (res.done /\ res.value) =>
        /\ arg.self.reflectivity = arg.other.reflectivity
        /\ arg.self.transparency = arg.other.transparency
        /\ arg.self.refractive_index = arg.other.refractive_index

\* The fields == does look at: equal materials agree on the colour, the
\* Phong terms and the pattern
C30_EqualMaterialsAgreeOnPhong ==
    (res.done /\ res.value) =>
        /\ arg.self.color = arg.other.color
        /\ arg.self.ambient = arg.other.ambient
        /\ arg.self.diffuse = arg.other.diffuse
        /\ arg.self.specular = arg.other.specular
        /\ arg.self.shininess = arg.other.shininess
        /\ arg.self.pattern = arg.other.pattern

\* Materials have compared equal, and others unequal
C30_ComparedEqual == res.done /\ res.value /\ arg.self = arg.other

====
